---- MODULE Spec2Model ----
(***************************************************************************)
(* Verification model of the Subly / Nodify repository: the connections    *)
(* context (cascading degree filter, cache, add / delete / refresh), the   *)
(* heat classification, the Gemini email analysis service, the email       *)
(* dashboard cache and the POST /api/connections route.                    *)
(*                                                                         *)
(* Time is counted in whole seconds: every millisecond constant of the      *)
(* source is written here divided by 1000 (JavaScript numbers are doubles, *)
(* TLC's integers are 32 bit wide and 90 days in ms do not fit).           *)
(* Each subsystem has its own specification; the variables of the other    *)
(* subsystems stay at their idle values.                                   *)
(***************************************************************************)
EXTENDS Integers, Sequences, FiniteSets, TLC

VARIABLES
    \* ---- heat classification (utils/heatMap.ts)
    hNow,            \* the value of new Date() inside getHeatStatus
    hDate,           \* the lastContactDate argument ("Invalid" = Invalid Date)
    hStatus,         \* the value returned by the last call, "none" before any
    \* ---- keyword fallback analysis (lib/gemini/service.ts)
    mNow,            \* Date.now() inside generateSmartMockAnalysis
    mEmail,          \* the ParsedEmail argument
    mResult,         \* the EmailAnalysis returned, NoAnalysis before any call
    \* ---- one analyzeEmail call (lib/gemini/service.ts)
    aPc,             \* "idle" | "await" (generateContent pending) | "settled"
    aEmail,          \* the ParsedEmail argument
    aOutcome,        \* what generateContent / response.text() gave
    aResult,         \* how the promise settled: [rejected, value]
    \* ---- one analyzeAndEnrich call (service.ts and unnamed/part_003)
    gVersion,        \* "sequential" (service.ts) | "batch" (part_003)
    gEmails,         \* the emails argument
    gPc,             \* position of the async function
    gI,              \* loop variable i, counted from 1
    gInFlight,       \* generateContent calls pending: 0 the batch prompt,
                     \*   k the prompt of email k
    gSlots,          \* Promise.all: the settled results of the current group
    gAnalyses,       \* analyses / results
    gEnriched,       \* what analyzeAndEnrich resolved with
    \* ---- ConnectionsProvider (unnamed/part_001) and its browser
    mounted,         \* the provider has been constructed in this page
    rawConnections,  \* useState<Connection[]>
    isLoading,       \* useState<boolean>
    selectedConnection, \* useState<ConnectionNode | null>
    filters,         \* useState<FilterState>
    localStorage,    \* the item stored under CACHE_KEY
    clock,           \* Date.now(), in seconds
    pendingFetches,  \* fetch('/api/connections') calls of fetchConnections
                     \*   that have not settled
    lastDeleted,     \* the id given to deleteConnection if that was the last
                     \*   operation, NoId otherwise
    cached,          \* the value of the last getCachedConnections() call
    \* ---- EmailDashboard (components/LinkedInImport/LinkedInImport.tsx)
    dashMounted,     \* the component has been constructed in this page
    allEmails,       \* useState<AnalyzedEmail[]>
    emailStats,      \* useState<EmailStats | null> (stats)
    connected,       \* status.connected
    loading,         \* useState<boolean>
    refreshing,      \* useState<boolean>
    source,          \* 'starred' | 'all'
    error,           \* useState<string | null>
    usingCache,      \* useState<boolean>
    hasLoadedAll,    \* useState<boolean>
    emailCache,      \* the item stored under CACHE_KEY
    dashNow,         \* Date.now(), in seconds
    pendingLists,    \* the /api/email/list requests that have not settled,
                     \*   each with the closure of its fetchEmails call
    lastFetch,       \* what the last operation did if it was a fetchEmails
                     \*   call or the settling of its request
    \* ---- POST /api/connections (app/api/connections/route.ts)
    postPc,          \* "idle" | "insert" (executeInsert pending) | "done"
    postConnections, \* const connections
    postAttempts,    \* the executeInsert calls made, in order, with outcome
    table,           \* the rows of CONNECTIONS, oldest first
    tableBefore,     \* the number of rows when the request arrived
    postResponse,    \* the response of the handler
    \* ---- GET /api/email/list and /api/email/starred (app/api/email)
    tokenStore,      \* tokenStorage: the session ids that have tokens stored
    lPc,             \* position of the handler: "idle" | "tokens" | "list" | "get" | "analyze" | "done"
    lRoute,          \* "list" | "starred"
    lFilter,         \* searchParams.get('filter') || 'starred'
    lSession,        \* the value of the gmail_session cookie, NoId if there is none
    lRefs,           \* response.data.messages || [] of messages.list
    lI,              \* fetchMessages: loop variable i, counted from 1
    lMessages,       \* fetchMessages: const messages
    lError,          \* the error caught by the catch block, "none" if nothing was thrown
    gmailCalls,      \* the Gmail API calls made for this request, in order
    geminiCalls,     \* the generateContent calls made for this request
    lResponse,       \* the response of the handler
    \* ---- LinkedInImport (components/LinkedInImport/LinkedInImport.tsx)
    importing,       \* useState<boolean>: a file is being read
    importRows,      \* const rows = parseCSV(text)
    importHeld,      \* the connections of the context in the closure of the handler
    importNow,       \* new Date() / Date.now() when the rows are converted, in seconds
    newConnections,  \* const newConnections
    importAdded,     \* the argument of the addConnections call (uniqueConnections)
    importResult,    \* useState<{ success, skipped } | null>
    \* ---- the email heat map (utils/emailHeatMap.ts)
    sNow,            \* new Date() inside the two functions, in seconds
    sEmail,          \* the AnalyzedEmail argument
    sStatus,         \* what getEmailHeatStatus returned, "none" before any call
    sScore,          \* what getEmailHeatScore returned
    \* ---- db/snowflake.js and scripts/readSnowflakeTable.js
    connection,      \* let connection: "null", or the state of the connection object, "pristine" | "up"
    sdkCalls,        \* the calls made to snowflake-sdk, in order
    snCall,          \* the call of connect / executeQuery / disconnect under way
    snLast,          \* the last connect() or disconnect() that settled: "never" | "connectFailed" | "connected" | "disconnected"
    mainPc,          \* position of main: "idle" | "checks" | "connect" | "query" | "disconnect" | "exited"
    tableName,       \* process.argv[2] is given
    envMissing,      \* the required environment variables that are not set
    exitCode,        \* the exit code of the process, -1 while it runs
    disconnects,     \* the calls of disconnect() made by main
    \* ---- calls of GeminiService.sortByPriority (lib/gemini/service.ts)
    sortPc,          \* "idle" | "done"
    sortArg,         \* the array as it was when sortByPriority was called
    sortEmails,      \* the array of the caller after the call
    sortReturned,    \* the array sortByPriority returned
    \* ---- ConnectionsProvider (context/ConnectionsContext.tsx) and the table behind /api/connections
    provMounted,     \* the provider is mounted
    provConnections, \* useState<Connection[]>: rawConnections
    provLoading,     \* useState<boolean>: isLoading
    provGet,         \* the GET /api/connections of fetchConnections
    provPost,        \* the POST /api/connections of addConnections
    provTable,       \* the rows of the table on the server
    provAdded,       \* the ids given to addConnections since the pending fetch started
    \* ---- FileTokenStorage (file-based version of lib/gmail/auth.ts)
    tokensFile,      \* the entries of .tokens.json as a Map
    fileWriters,     \* the fs.writeFile calls that have opened the file and not finished
    fsCalls,         \* the saveTokens / deleteTokens calls under way
    fsLast           \* per session id, the tokens of its last saveTokens call, "none" after a deleteTokens call

heatVars == <<hNow, hDate, hStatus>>
mockVars == <<mNow, mEmail, mResult>>
analyzeVars == <<aPc, aEmail, aOutcome, aResult>>
geminiVars == <<gVersion, gEmails, gPc, gI, gInFlight, gSlots, gAnalyses, gEnriched>>
connVars == <<mounted, rawConnections, isLoading, selectedConnection, filters,
              localStorage, clock, pendingFetches, lastDeleted, cached>>
dashVars == <<dashMounted, allEmails, emailStats, connected, loading, refreshing, source,
              error, usingCache, hasLoadedAll, emailCache, dashNow, pendingLists,
              lastFetch>>
postVars == <<postPc, postConnections, postAttempts, table, tableBefore, postResponse>>
listVars == <<tokenStore, lPc, lRoute, lFilter, lSession, lRefs, lI,
              lMessages, lError, gmailCalls, geminiCalls, lResponse>>
importVars == <<importing, importRows, importHeld, importNow, newConnections,
                importAdded, importResult>>
scoreVars == <<sNow, sEmail, sStatus, sScore>>
snowVars == <<connection, sdkCalls, snCall, snLast, mainPc, tableName,
              envMissing, exitCode, disconnects>>
sortVars == <<sortPc, sortArg, sortEmails, sortReturned>>
provVars == <<provMounted, provConnections, provLoading, provGet, provPost,
              provTable, provAdded>>
fsVars == <<tokensFile, fileWriters, fsCalls, fsLast>>

vars == <<heatVars, mockVars, analyzeVars, geminiVars, connVars, dashVars,
          postVars, listVars, importVars, scoreVars, snowVars, sortVars,
          provVars, fsVars>>

notHeat == <<mockVars, analyzeVars, geminiVars, connVars, dashVars, postVars,
             listVars, importVars, scoreVars, snowVars, sortVars, provVars,
             fsVars>>
notMock == <<heatVars, analyzeVars, geminiVars, connVars, dashVars, postVars,
             listVars, importVars, scoreVars, snowVars, sortVars, provVars,
             fsVars>>
notAnalyze == <<heatVars, mockVars, geminiVars, connVars, dashVars, postVars,
                listVars, importVars, scoreVars, snowVars, sortVars,
                provVars, fsVars>>
notGemini == <<heatVars, mockVars, analyzeVars, connVars, dashVars, postVars,
               listVars, importVars, scoreVars, snowVars, sortVars, provVars,
               fsVars>>
notConn == <<heatVars, mockVars, analyzeVars, geminiVars, dashVars, postVars,
             listVars, importVars, scoreVars, snowVars, sortVars, provVars,
             fsVars>>
notDash == <<heatVars, mockVars, analyzeVars, geminiVars, connVars, postVars,
             listVars, importVars, scoreVars, snowVars, sortVars, provVars,
             fsVars>>
notPost == <<heatVars, mockVars, analyzeVars, geminiVars, connVars, dashVars,
             listVars, importVars, scoreVars, snowVars, sortVars, provVars,
             fsVars>>
notList == <<heatVars, mockVars, analyzeVars, geminiVars, connVars, dashVars,
             postVars, importVars, scoreVars, snowVars, sortVars, provVars,
             fsVars>>
notImport == <<heatVars, mockVars, analyzeVars, geminiVars, connVars,
               dashVars, postVars, listVars, scoreVars, snowVars, sortVars,
               provVars, fsVars>>
notScore == <<heatVars, mockVars, analyzeVars, geminiVars, connVars,
              dashVars, postVars, listVars, importVars, snowVars, sortVars,
              provVars, fsVars>>
notSnow == <<heatVars, mockVars, analyzeVars, geminiVars, connVars, dashVars,
             postVars, listVars, importVars, scoreVars, sortVars, provVars,
             fsVars>>
notSort == <<heatVars, mockVars, analyzeVars, geminiVars, connVars, dashVars,
             postVars, listVars, importVars, scoreVars, snowVars, provVars,
             fsVars>>
notProv == <<heatVars, mockVars, analyzeVars, geminiVars, connVars, dashVars,
             postVars, listVars, importVars, scoreVars, snowVars, sortVars,
             fsVars>>
notFs == <<heatVars, mockVars, analyzeVars, geminiVars, connVars, dashVars,
           postVars, listVars, importVars, scoreVars, snowVars, sortVars,
           provVars>>

\* ------------------------------------------------------------------------
\* Time
\* ------------------------------------------------------------------------

\* 1000 * 60 * 60 * 24 ms, in seconds
DAY == 86400

\* A JavaScript number that may be NaN (getTime() of an Invalid Date, and every
\* number computed from it): a record, since TLC compares integers with integers only.
Num(n) == [nan |-> FALSE, n |-> n]
NaN == [nan |-> TRUE, n |-> 0]

\* new Date(t) as its getTime(); an Invalid Date has getTime() = NaN
DateOf(t) == Num(t)
InvalidDate == NaN

\* the reading of Date.now() when a specification starts
Epoch == 500 * DAY

\* now - date.getTime(), now being Date.now() or new Date().getTime()
TimeDiff(now, date) == IF date.nan THEN NaN ELSE Num(now - date.n)


\* ------------------------------------------------------------------------
\* Strings: a JavaScript string is the sequence of its characters
\* ------------------------------------------------------------------------

UpperChars == <<"A","B","C","D","E","F","G","H","I","J","K","L","M",
                "N","O","P","Q","R","S","T","U","V","W","X","Y","Z">>
LowerChars == <<"a","b","c","d","e","f","g","h","i","j","k","l","m",
                "n","o","p","q","r","s","t","u","v","w","x","y","z">>

LowerChar(c) ==
    IF \E i \in 1..26 : UpperChars[i] = c
    THEN LowerChars[CHOOSE i \in 1..26 : UpperChars[i] = c]
    ELSE c

\* String.prototype.toLowerCase
RECURSIVE toLowerCase(_)
toLowerCase(s) ==
    IF s = <<>> THEN <<>> ELSE <<LowerChar(Head(s))>> \o toLowerCase(Tail(s))

\* String.prototype.includes: sub occurs in s as a contiguous substring
includes(s, sub) ==
    \E i \in 0..(Len(s) - Len(sub)) : SubSeq(s, i + 1, i + Len(sub)) = sub

\* String.prototype.substring(0, n)
substring0(s, n) == SubSeq(s, 1, IF Len(s) < n THEN Len(s) ELSE n)

\* the keywords of generateSmartMockAnalysis (service.ts:57-76)
Keywords ==
    [urgent |-> <<"u","r","g","e","n","t">>,
     asap |-> <<"a","s","a","p">>,
     important |-> <<"i","m","p","o","r","t","a","n","t">>,
     deadline |-> <<"d","e","a","d","l","i","n","e">>,
     action_required |-> <<"a","c","t","i","o","n"," ","r","e","q","u","i","r","e","d">>,
     meeting |-> <<"m","e","e","t","i","n","g">>,
     invite |-> <<"i","n","v","i","t","e">>,
     calendar |-> <<"c","a","l","e","n","d","a","r">>,
     question |-> <<"q","u","e","s","t","i","o","n">>,
     help |-> <<"h","e","l","p">>,
     newsletter |-> <<"n","e","w","s","l","e","t","t","e","r">>,
     update |-> <<"u","p","d","a","t","e">>,
     digest |-> <<"d","i","g","e","s","t">>]

\* words that subjects are made of in the model (mixed case, one phrase, one word
\* that merely contains a keyword, one word that matches nothing)
SubjectWords == {
    <<"U","R","G","E","N","T">>,
    <<"A","s","a","p">>,
    <<"A","c","t","i","o","n"," ","R","e","q","u","i","r","e","d">>,
    <<"a","c","t","i","o","n">>,
    <<"U","r","g","e","n","t","l","y">>,
    <<"M","e","e","t","i","n","g">>,
    <<"Q","u","e","s","t","i","o","n">>,
    <<"N","e","w","s","l","e","t","t","e","r">>,
    <<"H","e","l","l","o">>}

\* ------------------------------------------------------------------------
\* utils/heatMap.ts
\* ------------------------------------------------------------------------

\* diffDays <= n, where diffDays = diffTime / (1000*60*60*24) is a real number:
\* the quotient is at most n exactly when diffTime is at most n days.
\* Every comparison with NaN is false.
DiffDaysAtMost(diffTime, n) == ~diffTime.nan /\ diffTime.n <= n * DAY

\* mutant: the hot boundary compared with < instead of <=
getHeatStatus_strict(now, lastContactDate) ==
    LET diffTime == TimeDiff(now, lastContactDate)
    IN  IF ~diffTime.nan /\ diffTime.n < 14 * DAY THEN "hot"
        ELSE IF DiffDaysAtMost(diffTime, 90) THEN "warm"
        ELSE "cold"

getHeatStatus(now, lastContactDate) ==
    LET diffTime == TimeDiff(now, lastContactDate)
    IN  IF DiffDaysAtMost(diffTime, 14) THEN "hot"
        ELSE IF DiffDaysAtMost(diffTime, 90) THEN "warm"
        ELSE "cold"

\* ---- specification of the heat classification --------------------------

\* number of clock readings the heat specification samples
HeatClockSteps == 12

\* the clock starts here (any epoch would do; dates before it are positive)

HeatNows == {Epoch + k * 7 : k \in 0..HeatClockSteps}

\* elapsed times around the two thresholds, the future and the far past
HeatElapsed == {-DAY, -1, 0, 1, 14 * DAY - 1, 14 * DAY, 14 * DAY + 1, 50 * DAY,
                90 * DAY - 1, 90 * DAY, 90 * DAY + 1, 91 * DAY}

HeatIdle ==
    /\ hNow = Epoch
    /\ hDate = DateOf(Epoch)
    /\ hStatus = "none"

\* a call getHeatStatus(lastContactDate) made at time hNow
HeatCall ==
    /\ \E d \in {DateOf(hNow - e) : e \in HeatElapsed} \cup {InvalidDate} :
          /\ hDate' = d
          /\ hStatus' = getHeatStatus(hNow, d)
    /\ UNCHANGED <<hNow, notHeat>>

\* time passes between calls
HeatTick ==
    /\ \E n \in HeatNows : n > hNow /\ hNow' = n
    /\ hStatus' = "none"
    /\ UNCHANGED <<hDate, notHeat>>

HeatNext == HeatCall \/ HeatTick

\* ------------------------------------------------------------------------
\* lib/gemini/service.ts: the keyword fallback
\* ------------------------------------------------------------------------

\* Math.floor((Date.now() - email.date.getTime()) / (1000 * 60 * 60 * 24))
daysOld(now, date) ==
    LET diff == TimeDiff(now, date)
    IN  IF diff.nan THEN NaN ELSE Num(diff.n \div DAY)

\* daysOld > n (false for NaN)
DaysOldAbove(d, n) == ~d.nan /\ d.n > n

NoAnalysis == [id |-> "", priority |-> "none", action |-> "none",
               suggestedResponseTime |-> "none", summary |-> <<>>,
               reasoning |-> "none"]

MockReasoning == "Smart analysis based on email metadata"

\* the rule chain of generateSmartMockAnalysis: <<priority, action, responseTime>>
MockRule(email) ==
    LET subject == toLowerCase(email.subject)
        snippet == toLowerCase(email.snippet)
    IN  IF \/ includes(subject, Keywords.urgent) \/ includes(subject, Keywords.asap)
           \/ includes(subject, Keywords.important) \/ includes(subject, Keywords.deadline)
           \/ includes(subject, Keywords.action_required) \/ email.isStarred
        THEN <<"HIGH", "RESPONSE_NEEDED", "ASAP">>
        ELSE IF \/ includes(subject, Keywords.meeting) \/ includes(subject, Keywords.invite)
                \/ includes(subject, Keywords.calendar)
        THEN <<"MEDIUM", "DEADLINE", "This week">>
        ELSE IF \/ includes(subject, Keywords.question) \/ includes(subject, Keywords.help)
                \/ includes(snippet, <<"?">>)
        THEN <<"MEDIUM", "RESPONSE_NEEDED", "This week">>
        ELSE IF \/ includes(subject, Keywords.newsletter) \/ includes(subject, Keywords.update)
                \/ includes(subject, Keywords.digest)
        THEN <<"LOW", "FYI", "No response needed">>
        ELSE <<"MEDIUM", "FYI", "When convenient">>

\* mutant: the age rule lowers every old email, HIGH included
generateSmartMockAnalysis_lowersHigh(email, now) ==
    LET rule == MockRule(email)
    IN  [id |-> email.id,
         priority |-> IF DaysOldAbove(daysOld(now, email.date), 7) THEN "LOW" ELSE rule[1],
         action |-> rule[2],
         suggestedResponseTime |-> rule[3],
         summary |-> IF email.snippet # <<>> THEN substring0(email.snippet, 100)
                     ELSE <<"Email from">>,
         reasoning |-> MockReasoning]

generateSmartMockAnalysis(email, now) ==
    LET rule == MockRule(email)
        priority == IF DaysOldAbove(daysOld(now, email.date), 7) /\ rule[1] # "HIGH"
                    THEN "LOW" ELSE rule[1]
    IN  [id |-> email.id,
         priority |-> priority,
         action |-> rule[2],
         suggestedResponseTime |-> rule[3],
         summary |-> IF email.snippet # <<>> THEN substring0(email.snippet, 100)
                     ELSE <<"Email from">>,
         reasoning |-> MockReasoning]

\* ---- specification of the keyword fallback -----------------------------

\* subjects have at most this many words
MaxSubjectWords == 2

RECURSIVE SubjectsOf(_)
SubjectsOf(n) ==
    IF n = 1 THEN SubjectWords
    ELSE SubjectsOf(n - 1) \cup
         {s \o <<" ">> \o w : s \in SubjectsOf(n - 1), w \in SubjectWords}

\* one-word subjects for the keywords the combined subjects leave out
KeywordSubjects == {
    <<"i","m","p","o","r","t","a","n","t">>,
    <<"D","e","a","d","l","i","n","e">>,
    <<"i","n","v","i","t","e">>,
    <<"C","a","l","e","n","d","a","r">>,
    <<"h","e","l","p">>,
    <<"u","p","d","a","t","e">>,
    <<"D","i","g","e","s","t">>}

MockSubjects == SubjectsOf(MaxSubjectWords) \cup KeywordSubjects

MockSnippets == {<<>>, <<"O","K","?">>}


\* ages around the 7-day rule, a date in the future and an Invalid Date
MockDates == {DateOf(Epoch - a) :
                 a \in {-DAY, 7 * DAY, 7 * DAY + 1, 8 * DAY - 1, 8 * DAY}}
             \cup {InvalidDate}

MockEmails ==
    {[id |-> "m1", subject |-> s, snippet |-> sn, date |-> d, isStarred |-> st] :
        s \in MockSubjects, sn \in MockSnippets, d \in MockDates, st \in BOOLEAN}

NoEmail == [id |-> "", subject |-> <<>>, snippet |-> <<>>,
            date |-> DateOf(0), isStarred |-> FALSE]

MockIdle ==
    /\ mNow = Epoch
    /\ mEmail = NoEmail
    /\ mResult = NoAnalysis

\* a call generateSmartMockAnalysis(email)
MockCall ==
    /\ mResult = NoAnalysis
    /\ \E e \in MockEmails :
          /\ mEmail' = e
          /\ mResult' = generateSmartMockAnalysis(e, mNow)
    /\ UNCHANGED <<mNow, notMock>>

\* the caller has taken the result (the service keeps nothing of a call)
MockReturn ==
    /\ mResult # NoAnalysis
    /\ mResult' = NoAnalysis
    /\ mEmail' = NoEmail
    /\ UNCHANGED <<mNow, notMock>>

MockNext == MockCall \/ MockReturn

\* ------------------------------------------------------------------------
\* lib/gemini/service.ts: analyzeEmail
\* ------------------------------------------------------------------------

\* What this.model.generateContent(prompt) and result.response.text() give: an
\* error that is thrown (with its HTTP status), or the response text.  A text is
\* described by what the two regular expressions of analyzeEmail see in it:
\*   fence  the text holds a ```json ... ``` block, whose content is the body
\*          (otherwise the body stands in the text unfenced, among prose)
\*   json   what the body is:
\*          "prose"   words without braces or brackets
\*          "empty"   nothing (only meaningful inside a fence)
\*          "braces"  {...} that is not JSON
\*          "null", "number"  a JSON literal
\*          "object"  a JSON object with the fields priority and action
\*          "array"   a JSON array of such objects (items)
ApiResponse(kind, status, fence, json, priority, action, items) ==
    [kind |-> kind, status |-> status, fence |-> fence, json |-> json,
     priority |-> priority, action |-> action, items |-> items]

ApiError(status) == ApiResponse("error", status, FALSE, "prose", "", "", <<>>)
ApiText(fence, json, priority, action, items) ==
    ApiResponse("text", 200, fence, json, priority, action, items)

\* a JSON object of the model's answer; "undefined" is a field the object lacks
JsonObject(id, priority, action) == [id |-> id, priority |-> priority, action |-> action]

\* response.match(/```json\n?([\s\S]*?)\n?```/) || response.match(/\{[\s\S]*\}/)
\* and jsonMatch[1] || jsonMatch[0]: the string handed to JSON.parse, as
\* [matched, json, ...] with json the kind of text it is.
ExtractJson(text) ==
    IF text.fence
    THEN \* group 1 is the body; an empty group is falsy and the whole match,
         \* fence marks included, is taken instead: not JSON
         IF text.json = "empty"
         THEN [matched |-> TRUE, json |-> "braces", priority |-> "", action |-> "",
               items |-> <<>>]
         ELSE [matched |-> TRUE, json |-> text.json, priority |-> text.priority,
               action |-> text.action, items |-> text.items]
    ELSE \* greedy: from the first { to the last }
         CASE text.json \in {"object", "braces"} ->
                [matched |-> TRUE, json |-> text.json, priority |-> text.priority,
                 action |-> text.action, items |-> <<>>]
           [] text.json = "array" /\ Len(text.items) = 1 ->
                [matched |-> TRUE, json |-> "object",
                 priority |-> text.items[1].priority,
                 action |-> text.items[1].action, items |-> <<>>]
           [] text.json = "array" /\ Len(text.items) > 1 ->
                \* {..}, {..} is not JSON
                [matched |-> TRUE, json |-> "braces", priority |-> "", action |-> "",
                 items |-> <<>>]
           [] OTHER ->
                [matched |-> FALSE, json |-> "prose", priority |-> "", action |-> "",
                 items |-> <<>>]

\* JSON.parse throws a SyntaxError on these
JsonSyntaxError(str) == str.json \in {"prose", "braces", "empty"}

\* analysis.id = email.id throws a TypeError on null and, in strict code (a class
\* body), on a primitive
NotAssignable(str) == str.json \in {"null", "number"}

ApiReasoning == "from the model's answer"

\* the try block of analyzeEmail: [threw, value]
AnalyzeTry(email, outcome) ==
    LET str == ExtractJson(outcome)
    IN  IF \/ outcome.kind = "error"
           \/ ~str.matched
           \/ JsonSyntaxError(str)
           \/ NotAssignable(str)
        THEN [threw |-> TRUE, value |-> NoAnalysis]
        ELSE [threw |-> FALSE,
              value |-> [id |-> email.id,
                         priority |-> IF str.json = "object" THEN str.priority
                                      ELSE "undefined",
                         action |-> IF str.json = "object" THEN str.action
                                    ELSE "undefined",
                         suggestedResponseTime |-> "undefined",
                         summary |-> <<>>,
                         reasoning |-> ApiReasoning]]

\* mutant: a rate-limit error is thrown on to the caller
analyzeEmail_rethrows429(email, outcome, now) ==
    LET try == AnalyzeTry(email, outcome)
    IN  IF try.threw
        THEN IF outcome.kind = "error" /\ outcome.status = 429
             THEN [rejected |-> TRUE, value |-> NoAnalysis]
             ELSE [rejected |-> FALSE, value |-> generateSmartMockAnalysis(email, now)]
        ELSE [rejected |-> FALSE, value |-> try.value]

\* analyzeEmail: how its promise settles.  Neither branch of the catch block
\* throws: it logs and returns the keyword analysis.
analyzeEmail(email, outcome, now) ==
    LET try == AnalyzeTry(email, outcome)
    IN  IF try.threw
        THEN [rejected |-> FALSE, value |-> generateSmartMockAnalysis(email, now)]
        ELSE [rejected |-> FALSE, value |-> try.value]

\* ---- specification of one analyzeEmail call ----------------------------

Priorities == {"HIGH", "MEDIUM", "LOW"}
ActionTypes == {"RESPONSE_NEEDED", "FOLLOW_UP", "WAITING", "FYI", "DEADLINE"}

\* the HTTP statuses of a failed call that the model tries
ApiErrorStatuses == {429, 500, 503}

\* the objects the model may answer with: well-formed ones, one with values
\* outside the enumerations, one without the fields
AnswerFields == {<<"HIGH", "RESPONSE_NEEDED">>, <<"LOW", "FYI">>,
                 <<"URGENT", "REPLY">>, <<"undefined", "undefined">>}

SingleTexts ==
    {ApiText(f, j, "", "", <<>>) :
        f \in BOOLEAN, j \in {"prose", "empty", "braces", "null", "number"}}
    \cup {ApiText(f, "object", pa[1], pa[2], <<>>) : f \in BOOLEAN, pa \in AnswerFields}
    \cup {ApiText(f, "array", "", "", <<>>) : f \in BOOLEAN}
    \cup {ApiText(f, "array", "", "", <<JsonObject("x", "HIGH", "FYI")>>) : f \in BOOLEAN}

SingleOutcomes == {ApiError(st) : st \in ApiErrorStatuses} \cup SingleTexts


\* the number of message ids the model uses
MaxEmailIds == 3
EmailIds == <<"e1", "e2", "e3", "e4", "e5", "e6", "e7", "e8">>

\* emails of the single-call specification: a starred one, an old one, a question
AnalyzeEmails ==
    {[id |-> EmailIds[k], subject |-> sd[1], snippet |-> sn, date |-> DateOf(Epoch - sd[2]),
      isStarred |-> st] :
        k \in 1..MaxEmailIds,
        sd \in {<<<<"H","e","l","l","o">>, DAY>>, <<<<"M","e","e","t","i","n","g">>, 9 * DAY>>},
        sn \in {<<>>, <<"O","K","?">>},
        st \in BOOLEAN}

NoOutcome == ApiResponse("none", 0, FALSE, "prose", "", "", <<>>)
NoResult == [rejected |-> FALSE, value |-> NoAnalysis]

AnalyzeIdle ==
    /\ aPc = "idle"
    /\ aEmail = NoEmail
    /\ aOutcome = NoOutcome
    /\ aResult = NoResult

\* analyzeEmail(email) up to await this.model.generateContent(prompt)
AnalyzeCall ==
    /\ aPc = "idle"
    /\ \E e \in AnalyzeEmails : aEmail' = e
    /\ aPc' = "await"
    /\ UNCHANGED <<aOutcome, aResult, notAnalyze>>

\* the API call settles and analyzeEmail runs to its end
AnalyzeSettle ==
    /\ aPc = "await"
    /\ \E o \in SingleOutcomes :
          /\ aOutcome' = o
          /\ aResult' = analyzeEmail(aEmail, o, Epoch)
    /\ aPc' = "settled"
    /\ UNCHANGED <<aEmail, notAnalyze>>

\* the caller has taken the result
AnalyzeReturn ==
    /\ aPc = "settled"
    /\ aPc' = "idle"
    /\ aEmail' = NoEmail
    /\ aOutcome' = NoOutcome
    /\ aResult' = NoResult
    /\ UNCHANGED notAnalyze

AnalyzeNext == AnalyzeCall \/ AnalyzeSettle \/ AnalyzeReturn

\* ------------------------------------------------------------------------
\* batchAnalyze, fallbackSequentialAnalysis, analyzeAndEnrich
\* ------------------------------------------------------------------------

Min(a, b) == IF a <= b THEN a ELSE b
Max(S) == CHOOSE x \in S : \A y \in S : y <= x

\* const concurrency = 3
concurrency == 3

\* an API object read as an EmailAnalysis (the cast checks nothing)
AsAnalysis(obj) ==
    [id |-> obj.id, priority |-> obj.priority, action |-> obj.action,
     suggestedResponseTime |-> "undefined", summary |-> <<>>,
     reasoning |-> ApiReasoning]

\* new Map(analyses.map(a => [a.id, a])).get(id): a later entry replaces an
\* earlier one with the same key
MapGet(analyses, id) ==
    LET idx == {j \in 1..Len(analyses) : analyses[j].id = id}
    IN  IF idx = {} THEN [found |-> FALSE, value |-> NoAnalysis]
        ELSE [found |-> TRUE, value |-> analyses[Max(idx)]]

\* the default analysis of the catch in the sequential batchAnalyze and of
\* analyzeAndEnrich
DefaultAnalysis(email) ==
    [id |-> email.id, priority |-> "MEDIUM", action |-> "FYI",
     suggestedResponseTime |-> "When convenient", summary |-> email.snippet,
     reasoning |-> "undefined"]


\* try { return await this.analyzeEmail(email) } catch { ... } of the
\* sequential loop
SequentialItem(email, outcome) ==
    LET r == analyzeEmail(email, outcome, Epoch)
    IN  IF r.rejected THEN DefaultAnalysis(email) ELSE r.value

\* the same of the fallback groups
FallbackItem(email, outcome) ==
    LET r == analyzeEmail(email, outcome, Epoch)
    IN  IF r.rejected THEN generateSmartMockAnalysis(email, Epoch) ELSE r.value

\* the try block of the single-call batchAnalyze after the API call settled:
\* [fallback, analyses]
\*   response.match(/```json\n?([\s\S]*?)\n?```/) || response.match(/\[[\s\S]*\]/)
\*   no match, a SyntaxError of JSON.parse, a TypeError of analyses.length on
\*   null or of analyses.map on what is not an array: fallbackSequentialAnalysis
BatchParse(emails, outcome) ==
    LET isArray == /\ outcome.kind = "text"
                   /\ outcome.json = "array"
        items == outcome.items
        analyses == [j \in 1..Len(items) |-> AsAnalysis(items[j])]
        pick(email) == LET g == MapGet(analyses, email.id)
                       IN  IF g.found THEN g.value
                           ELSE generateSmartMockAnalysis(email, Epoch)
    IN  IF isArray
        THEN [fallback |-> FALSE,
              analyses |-> [k \in 1..Len(emails) |-> pick(emails[k])]]
        ELSE [fallback |-> TRUE, analyses |-> <<>>]

\* analyzeAndEnrich after batchAnalyze resolved
Enrich(emails, analyses) ==
    [k \in 1..Len(emails) |->
        LET g == MapGet(analyses, emails[k].id)
        IN  [id |-> emails[k].id, subject |-> emails[k].subject,
             snippet |-> emails[k].snippet, date |-> emails[k].date,
             isStarred |-> emails[k].isStarred,
             analysis |-> IF g.found THEN g.value ELSE DefaultAnalysis(emails[k])]]

\* mutant: the whole rest of the list is one group
GroupEnd_all(i, n) == n

\* emails.slice(i, i + concurrency): the last index of the group starting at i
GroupEnd(i, n) == Min(i + concurrency - 1, n)

\* ---- specification of one analyzeAndEnrich call --------------------------

\* the longest email list the model tries
MaxEmails == 4

GemEmail(k, starred) ==
    [id |-> EmailIds[k],
     subject |-> IF starred THEN <<"U","R","G","E","N","T">> ELSE <<"H","e","l","l","o">>,
     snippet |-> <<>>, date |-> DateOf(Epoch - DAY), isStarred |-> starred]

GemEmailLists ==
    UNION {{[k \in 1..n |-> GemEmail(k, f[k])] : f \in [1..n -> BOOLEAN]} : n \in 0..MaxEmails}

\* answers to the prompt of one email
GemSingleOutcomes ==
    {ApiError(429),
     ApiText(TRUE, "object", "HIGH", "RESPONSE_NEEDED", <<>>),
     ApiText(TRUE, "object", "URGENT", "REPLY", <<>>)}

\* answers to the batch prompt
GemBatchOutcomes(emails) ==
    LET n == Len(emails)
        all(p, a) == [k \in 1..n |-> JsonObject(emails[k].id, p, a)]
    IN  {ApiError(500),
         ApiText(FALSE, "prose", "", "", <<>>),
         ApiText(TRUE, "null", "", "", <<>>),
         ApiText(TRUE, "object", "HIGH", "FYI", <<>>),
         ApiText(TRUE, "array", "", "", <<>>),
         ApiText(TRUE, "array", "", "", all("LOW", "FYI")),
         ApiText(FALSE, "array", "", "", all("URGENT", "REPLY")),
         ApiText(TRUE, "array", "", "", SubSeq(all("HIGH", "DEADLINE"), 1, 1))}

GeminiIdle ==
    /\ gVersion = "sequential"
    /\ gEmails = <<>>
    /\ gPc = "idle"
    /\ gI = 1
    /\ gInFlight = {}
    /\ gSlots = <<>>
    /\ gAnalyses = <<>>
    /\ gEnriched = <<>>

\* batchAnalyze returns analyses and analyzeAndEnrich runs to its end
GemFinish(analyses) ==
    /\ gAnalyses' = analyses
    /\ gEnriched' = Enrich(gEmails, analyses)
    /\ gPc' = "done"
    /\ gInFlight' = {}
    /\ gSlots' = <<>>

\* fallbackSequentialAnalysis: the group at i is started
GemStartGroup(i, results) ==
    /\ gI' = i
    /\ gAnalyses' = results
    /\ gInFlight' = i..GroupEnd(i, Len(gEmails))
    /\ gSlots' = [j \in 1..(GroupEnd(i, Len(gEmails)) - i + 1) |-> NoAnalysis]
    /\ gPc' = "fallbackAwait"
    /\ gEnriched' = <<>>

\* analyzeAndEnrich(emails) up to its first await
GemCall ==
    /\ gPc = "idle"
    /\ \E v \in {"sequential", "batch"}, es \in GemEmailLists :
          /\ gVersion' = v
          /\ gEmails' = es
          /\ IF es = <<>>
             THEN \* if (emails.length === 0) return []
                  /\ gAnalyses' = <<>>
                  /\ gEnriched' = <<>>
                  /\ gPc' = "done"
                  /\ gInFlight' = {}
             ELSE /\ gAnalyses' = <<>>
                  /\ gEnriched' = <<>>
                  /\ gPc' = IF v = "sequential" THEN "sequentialAwait" ELSE "batchAwait"
                  /\ gInFlight' = IF v = "sequential" THEN {1} ELSE {0}
    /\ gI' = 1
    /\ gSlots' = <<>>
    /\ UNCHANGED notGemini

\* sequential batchAnalyze: analyzeEmail(emails[i]) settles
SequentialSettle ==
    /\ gPc = "sequentialAwait"
    /\ \E o \in GemSingleOutcomes :
          LET analyses == Append(gAnalyses, SequentialItem(gEmails[gI], o))
          IN  IF gI < Len(gEmails)
              THEN /\ gAnalyses' = analyses
                   /\ gI' = gI + 1
                   /\ gInFlight' = {}
                   /\ gPc' = "sequentialDelay"
                   /\ UNCHANGED <<gSlots, gEnriched>>
              ELSE /\ GemFinish(analyses)
                   /\ UNCHANGED gI
    /\ UNCHANGED <<gVersion, gEmails, notGemini>>

\* sequential batchAnalyze: the 1000 ms timer fires
SequentialTimer ==
    /\ gPc = "sequentialDelay"
    /\ gInFlight' = {gI}
    /\ gPc' = "sequentialAwait"
    /\ UNCHANGED <<gVersion, gEmails, gI, gSlots, gAnalyses, gEnriched, notGemini>>

\* single-call batchAnalyze: the batch prompt settles
BatchSettle ==
    /\ gPc = "batchAwait"
    /\ \E o \in GemBatchOutcomes(gEmails) :
          LET r == BatchParse(gEmails, o)
          IN  IF r.fallback
              THEN GemStartGroup(1, <<>>)
              ELSE GemFinish(r.analyses) /\ UNCHANGED gI
    /\ UNCHANGED <<gVersion, gEmails, notGemini>>

\* fallbackSequentialAnalysis: one analyzeEmail of the group settles; with the
\* last one Promise.all resolves
FallbackSettle ==
    /\ gPc = "fallbackAwait"
    /\ \E k \in gInFlight, o \in GemSingleOutcomes :
          LET slots == [gSlots EXCEPT ![k - gI + 1] = FallbackItem(gEmails[k], o)]
              results == gAnalyses \o slots
          IN  IF gInFlight # {k}
              THEN /\ gSlots' = slots
                   /\ gInFlight' = gInFlight \ {k}
                   /\ UNCHANGED <<gI, gPc, gAnalyses, gEnriched>>
              ELSE IF gI + concurrency <= Len(gEmails)
                   THEN /\ gAnalyses' = results
                        /\ gSlots' = <<>>
                        /\ gInFlight' = {}
                        /\ gI' = gI + concurrency
                        /\ gPc' = "fallbackDelay"
                        /\ UNCHANGED gEnriched
                   ELSE GemFinish(results) /\ UNCHANGED gI
    /\ UNCHANGED <<gVersion, gEmails, notGemini>>

\* fallbackSequentialAnalysis: the 200 ms timer fires
FallbackTimer ==
    /\ gPc = "fallbackDelay"
    /\ GemStartGroup(gI, gAnalyses)
    /\ UNCHANGED <<gVersion, gEmails, notGemini>>

\* the caller has taken the result
GemReturn ==
    /\ gPc = "done"
    /\ gVersion' = "sequential"
    /\ gEmails' = <<>>
    /\ gPc' = "idle"
    /\ gI' = 1
    /\ gInFlight' = {}
    /\ gSlots' = <<>>
    /\ gAnalyses' = <<>>
    /\ gEnriched' = <<>>
    /\ UNCHANGED notGemini

GeminiNext ==
    \/ GemCall
    \/ SequentialSettle
    \/ SequentialTimer
    \/ BatchSettle
    \/ FallbackSettle
    \/ FallbackTimer
    \/ GemReturn

\* ------------------------------------------------------------------------
\* ConnectionsProvider: the local-storage cache
\* ------------------------------------------------------------------------

\* const CACHE_DURATION = 15 * 60 * 1000, in seconds
CACHE_DURATION == 15 * 60

\* Date.prototype.toJSON: the ISO string of the instant, null for an Invalid Date
DateToJson(d) == [null |-> d.nan, iso |-> IF d.nan THEN 0 ELSE d.n]

\* new Date(value) on what JSON.parse gives back: new Date(null) is the epoch
NewDate(j) == IF j.null THEN DateOf(0) ELSE DateOf(j.iso)

\* JSON.stringify of a Connection: the date becomes its toJSON()
ConnectionToJson(conn) ==
    [conn EXCEPT !.lastContactDate = DateToJson(conn.lastContactDate)]

\* { ...conn, lastContactDate: new Date(conn.lastContactDate) }
ConnectionFromJson(conn) ==
    [conn EXCEPT !.lastContactDate = NewDate(conn.lastContactDate)]

\* localStorage.getItem(CACHE_KEY) === null
NoItem == [present |-> FALSE, connections |-> <<>>, timestamp |-> 0]

\* setCachedConnections(connections): the item written
setCachedConnections(connections, now) ==
    [present |-> TRUE,
     connections |-> [k \in 1..Len(connections) |-> ConnectionToJson(connections[k])],
     timestamp |-> now]

\* mutant: an entry exactly CACHE_DURATION old is already expired
getCachedConnections_expiresAt(item, now) ==
    IF ~item.present
    THEN [isNull |-> TRUE, connections |-> <<>>, item |-> item]
    ELSE IF now - item.timestamp >= CACHE_DURATION
         THEN [isNull |-> TRUE, connections |-> <<>>, item |-> NoItem]
         ELSE [isNull |-> FALSE,
               connections |-> [k \in 1..Len(item.connections) |->
                                   ConnectionFromJson(item.connections[k])],
               item |-> item]

\* getCachedConnections(): [isNull, connections] is what it returns, item what
\* it leaves in local storage
getCachedConnections(item, now) ==
    IF ~item.present
    THEN [isNull |-> TRUE, connections |-> <<>>, item |-> item]
    ELSE IF now - item.timestamp > CACHE_DURATION
         THEN [isNull |-> TRUE, connections |-> <<>>, item |-> NoItem]
         ELSE [isNull |-> FALSE,
               connections |-> [k \in 1..Len(item.connections) |->
                                   ConnectionFromJson(item.connections[k])],
               item |-> item]

\* ------------------------------------------------------------------------
\* ConnectionsProvider: derived values
\* ------------------------------------------------------------------------

\* a falsy connectedThrough (undefined or '')
NoId == ""

Technology == <<"T","e","c","h","n","o","l","o","g","y">>
Finance == <<"F","i","n","a","n","c","e">>

Connection(id, name, industry, lastContactDate, degree, connectedThrough) ==
    [id |-> id, name |-> name, title |-> <<"C","T","O">>, company |-> <<"A","c","m","e">>,
     industry |-> industry, lastContactDate |-> lastContactDate, degree |-> degree,
     connectedThrough |-> connectedThrough]

\* ConnectionNode: { ...conn, heatStatus: getHeatStatus(conn.lastContactDate) }
ConnectionNode(conn, now) ==
    [id |-> conn.id, name |-> conn.name, title |-> conn.title, company |-> conn.company,
     industry |-> conn.industry, lastContactDate |-> conn.lastContactDate,
     degree |-> conn.degree, connectedThrough |-> conn.connectedThrough,
     heatStatus |-> getHeatStatus(now, conn.lastContactDate)]

\* selectedConnection === null
NullNode ==
    [id |-> NoId, name |-> <<>>, title |-> <<>>, company |-> <<>>, industry |-> <<>>,
     lastContactDate |-> DateOf(0), degree |-> 0, connectedThrough |-> NoId,
     heatStatus |-> "null"]

\* maxDegree: null (show all)
NullDegree == 0

\* the initial FilterState, also what clearFilters sets
NoFilters ==
    [industries |-> {}, heatStatuses |-> {}, searchQuery |-> <<>>, maxDegree |-> NullDegree]

\* const connections = rawConnections.map(...)
connections(raw, now) == [k \in 1..Len(raw) |-> ConnectionNode(raw[k], now)]

\* the elements of an array
Elems(seq) == {seq[k] : k \in 1..Len(seq)}

\* new Set(list.map(c => c.id))
IdsOf(list) == {list[k].id : k \in 1..Len(list)}

\* allLinks: one link per connection with a truthy connectedThrough
allLinks(conns) ==
    LET linked == SelectSeq(conns, LAMBDA c : c.connectedThrough # NoId)
    IN  [k \in 1..Len(linked) |->
            [source |-> linked[k].connectedThrough, target |-> linked[k].id]]

matchesBasicFilters(conn, f) ==
    /\ f.industries # {} => conn.industry \in f.industries
    /\ f.searchQuery # <<>> =>
          LET query == toLowerCase(f.searchQuery)
          IN  \E field \in {conn.name, conn.title, conn.company, conn.industry} :
                  includes(toLowerCase(field), query)

\* mutant: 2nd-degree connections are not tied to a visible parent
filteredConnections_noCascade(conns, f) ==
    LET firstDegreeFiltered ==
            SelectSeq(conns, LAMBDA c :
                /\ c.degree = 1
                /\ matchesBasicFilters(c, f)
                /\ f.heatStatuses # {} => c.heatStatus \in f.heatStatuses)
        secondDegreeFiltered ==
            SelectSeq(conns, LAMBDA c : c.degree = 2 /\ matchesBasicFilters(c, f))
        visible2ndIds == IdsOf(secondDegreeFiltered)
        thirdDegreeFiltered ==
            SelectSeq(conns, LAMBDA c :
                /\ c.degree = 3
                /\ c.connectedThrough # NoId /\ c.connectedThrough \in visible2ndIds
                /\ matchesBasicFilters(c, f))
    IN  IF f.maxDegree = 1 THEN firstDegreeFiltered
        ELSE IF f.maxDegree = 2 THEN firstDegreeFiltered \o secondDegreeFiltered
        ELSE firstDegreeFiltered \o secondDegreeFiltered \o thirdDegreeFiltered

\* mutant: maxDegree 2 is not looked at
filteredConnections_noSecondLimit(conns, f) ==
    LET firstDegreeFiltered ==
            SelectSeq(conns, LAMBDA c :
                /\ c.degree = 1
                /\ matchesBasicFilters(c, f)
                /\ f.heatStatuses # {} => c.heatStatus \in f.heatStatuses)
        visible1stIds == IdsOf(firstDegreeFiltered)
        secondDegreeFiltered ==
            SelectSeq(conns, LAMBDA c :
                /\ c.degree = 2
                /\ c.connectedThrough # NoId /\ c.connectedThrough \in visible1stIds
                /\ matchesBasicFilters(c, f))
        visible2ndIds == IdsOf(secondDegreeFiltered)
        thirdDegreeFiltered ==
            SelectSeq(conns, LAMBDA c :
                /\ c.degree = 3
                /\ c.connectedThrough # NoId /\ c.connectedThrough \in visible2ndIds
                /\ matchesBasicFilters(c, f))
    IN  IF f.maxDegree = 1 THEN firstDegreeFiltered
        ELSE firstDegreeFiltered \o secondDegreeFiltered \o thirdDegreeFiltered

\* mutant: the heat filter is applied to 2nd-degree connections too
filteredConnections_heatOnSecond(conns, f) ==
    LET firstDegreeFiltered ==
            SelectSeq(conns, LAMBDA c :
                /\ c.degree = 1
                /\ matchesBasicFilters(c, f)
                /\ f.heatStatuses # {} => c.heatStatus \in f.heatStatuses)
        visible1stIds == IdsOf(firstDegreeFiltered)
        secondDegreeFiltered ==
            SelectSeq(conns, LAMBDA c :
                /\ c.degree = 2
                /\ c.connectedThrough # NoId /\ c.connectedThrough \in visible1stIds
                /\ matchesBasicFilters(c, f)
                /\ f.heatStatuses # {} => c.heatStatus \in f.heatStatuses)
        visible2ndIds == IdsOf(secondDegreeFiltered)
        thirdDegreeFiltered ==
            SelectSeq(conns, LAMBDA c :
                /\ c.degree = 3
                /\ c.connectedThrough # NoId /\ c.connectedThrough \in visible2ndIds
                /\ matchesBasicFilters(c, f))
    IN  IF f.maxDegree = 1 THEN firstDegreeFiltered
        ELSE IF f.maxDegree = 2 THEN firstDegreeFiltered \o secondDegreeFiltered
        ELSE firstDegreeFiltered \o secondDegreeFiltered \o thirdDegreeFiltered

\* filteredConnections: the cascading filter
filteredConnections(conns, f) ==
    LET firstDegreeFiltered ==
            SelectSeq(conns, LAMBDA c :
                /\ c.degree = 1
                /\ matchesBasicFilters(c, f)
                /\ f.heatStatuses # {} => c.heatStatus \in f.heatStatuses)
        visible1stIds == IdsOf(firstDegreeFiltered)
        secondDegreeFiltered ==
            SelectSeq(conns, LAMBDA c :
                /\ c.degree = 2
                /\ c.connectedThrough # NoId /\ c.connectedThrough \in visible1stIds
                /\ matchesBasicFilters(c, f))
        visible2ndIds == IdsOf(secondDegreeFiltered)
        thirdDegreeFiltered ==
            SelectSeq(conns, LAMBDA c :
                /\ c.degree = 3
                /\ c.connectedThrough # NoId /\ c.connectedThrough \in visible2ndIds
                /\ matchesBasicFilters(c, f))
    IN  IF f.maxDegree = 1 THEN firstDegreeFiltered
        ELSE IF f.maxDegree = 2 THEN firstDegreeFiltered \o secondDegreeFiltered
        ELSE firstDegreeFiltered \o secondDegreeFiltered \o thirdDegreeFiltered

\* mutant: the links are not filtered
links_all(conns, f) == allLinks(conns)

\* links: the links of allLinks with both ends visible
links(conns, f) ==
    LET visibleIds == IdsOf(filteredConnections(conns, f))
    IN  SelectSeq(allLinks(conns),
                  LAMBDA l : l.source \in visibleIds /\ l.target \in visibleIds)

\* stats; industries is given as the set of its elements
stats(conns) ==
    [total |-> Len(conns),
     hot |-> Len(SelectSeq(conns, LAMBDA c : c.heatStatus = "hot")),
     warm |-> Len(SelectSeq(conns, LAMBDA c : c.heatStatus = "warm")),
     cold |-> Len(SelectSeq(conns, LAMBDA c : c.heatStatus = "cold")),
     industries |-> {conns[k].industry : k \in 1..Len(conns)},
     degree1 |-> Len(SelectSeq(conns, LAMBDA c : c.degree = 1)),
     degree2 |-> Len(SelectSeq(conns, LAMBDA c : c.degree = 2)),
     degree3 |-> Len(SelectSeq(conns, LAMBDA c : c.degree = 3))]

\* what the provider exposes in the current render
Connections == connections(rawConnections, clock)
FilteredConnections == filteredConnections(Connections, filters)
Links == links(Connections, filters)
Stats == stats(Connections)

\* mutant: only the first connection with the id is removed
deleteConnectionUpdated_first(raw, id) ==
    LET idx == {k \in 1..Len(raw) : raw[k].id = id}
    IN  IF idx = {} THEN raw
        ELSE LET first == CHOOSE k \in idx : \A j \in idx : k <= j
             IN  SubSeq(raw, 1, first - 1) \o SubSeq(raw, first + 1, Len(raw))

\* deleteConnection: const updated = rawConnections.filter(c => c.id !== id)
deleteConnectionUpdated(raw, id) == SelectSeq(raw, LAMBDA c : c.id # id)

\* ---- specification of the local-storage cache ---------------------------


Ann == Connection("a", <<"A","n","n">>, Technology, DateOf(Epoch - DAY), 1, NoId)
Bob == Connection("b", <<"B","o","b">>, Finance, DateOf(Epoch - 100 * DAY), 1, NoId)
Cy == Connection("c", <<"C","y">>, Finance, DateOf(Epoch - 120 * DAY), 2, "a")
Di == Connection("d", <<"D","i">>, Technology, DateOf(Epoch - 2 * DAY), 3, "c")
\* a 1st-degree row that names a parent
Eve == Connection("e", <<"E","v","e">>, Technology, DateOf(Epoch - 30 * DAY), 1, "a")
\* a row with the id of another row
Ann2 == Connection("a", <<"A","n","n","a">>, Finance, DateOf(Epoch - 3 * DAY), 2, "b")

ConnPool == {Ann, Bob, Cy, Di, Eve, Ann2}

\* the lists the cache specification stores
CacheLists == {<<>>, <<Ann>>, <<Bob, Ann2>>, <<Ann, Cy, Di>>}

\* the seconds the cache specification lets pass at once
CacheTicks == {1, CACHE_DURATION \div 2}

\* the number of clock steps of the cache specification
MaxCacheTicks == 4

\* the clock readings of the cache specification
CacheClocks ==
    {Epoch + a * (CACHE_DURATION \div 2) + b :
        a \in 0..MaxCacheTicks, b \in 0..MaxCacheTicks} \cap
    {Epoch + a * (CACHE_DURATION \div 2) + (n - a) :
        a \in 0..MaxCacheTicks, n \in 0..MaxCacheTicks}

NoCached == [called |-> FALSE, isNull |-> TRUE, connections |-> <<>>]

\* setCachedConnections(connections)
CacheSet ==
    /\ \E list \in CacheLists : localStorage' = setCachedConnections(list, clock)
    /\ cached' = NoCached
    /\ UNCHANGED <<mounted, rawConnections, isLoading, selectedConnection, filters,
                   clock, pendingFetches, lastDeleted, notConn>>

\* const cached = getCachedConnections()
CacheGet ==
    /\ LET g == getCachedConnections(localStorage, clock)
       IN  /\ cached' = [called |-> TRUE, isNull |-> g.isNull, connections |-> g.connections]
           /\ localStorage' = g.item
    /\ UNCHANGED <<mounted, rawConnections, isLoading, selectedConnection, filters,
                   clock, pendingFetches, lastDeleted, notConn>>

\* time passes
CacheTick ==
    /\ \E t \in CacheTicks :
          /\ clock + t \in CacheClocks
          /\ clock' = clock + t
    /\ cached' = NoCached
    /\ UNCHANGED <<mounted, rawConnections, isLoading, selectedConnection, filters,
                   localStorage, pendingFetches, lastDeleted, notConn>>

CacheNext == CacheSet \/ CacheGet \/ CacheTick

\* ---- specification of the provider ---------------------------------------

\* the longest connection list the model tries
MaxConns == 3

\* the most fetches pending at once
MaxPending == 1

\* the number of times the clock of the provider specification advances
ConnClockSteps == 1

\* what GET /api/connections may answer with
ServerLists == {<<>>, <<Ann, Cy, Di>>, <<Bob, Eve>>}

\* how fetch('/api/connections') settles: it rejects, answers with an error
\* status, or answers with { connections }
FetchOutcomes ==
    {[kind |-> k, connections |-> <<>>] : k \in {"rejected", "error"}}
    \cup {[kind |-> "ok", connections |-> list] : list \in ServerLists}

FilterIndustries == {{}, {Technology}}
FilterHeats == {{}, {"hot"}}
FilterQueries == {<<>>, <<"A","N">>}
FilterDegrees == {NullDegree, 1, 2, 3}

ConnIdle ==
    /\ mounted = FALSE
    /\ rawConnections = <<>>
    /\ isLoading = FALSE
    /\ selectedConnection = NullNode
    /\ filters = NoFilters
    /\ localStorage = NoItem
    /\ clock = Epoch
    /\ pendingFetches = 0
    /\ lastDeleted = NoId
    /\ cached = NoCached

\* the page is loaded (again): the useState initialisers run and the mount
\* effect calls fetchConnections(), which takes a non-empty cache or fetches
Mount ==
    /\ LET g == getCachedConnections(localStorage, clock)
       IN  /\ localStorage' = g.item
           /\ rawConnections' = g.connections
           /\ IF ~g.isNull /\ Len(g.connections) > 0
              THEN isLoading' = FALSE /\ pendingFetches' = 0
              ELSE isLoading' = TRUE /\ pendingFetches' = 1
    /\ mounted' = TRUE
    /\ selectedConnection' = NullNode
    /\ filters' = NoFilters
    /\ lastDeleted' = NoId
    /\ UNCHANGED <<clock, cached, notConn>>

\* refreshConnections(): fetchConnections(true) up to the await
Refresh ==
    /\ mounted
    /\ pendingFetches < MaxPending
    /\ isLoading' = TRUE
    /\ pendingFetches' = pendingFetches + 1
    /\ lastDeleted' = NoId
    /\ UNCHANGED <<mounted, rawConnections, selectedConnection, filters, localStorage,
                   clock, cached, notConn>>

\* fetchConnections after the await: the fetch rejected, answered an error
\* status, or answered with a list
FetchSettle ==
    /\ mounted
    /\ pendingFetches > 0
    /\ pendingFetches' = pendingFetches - 1
    /\ isLoading' = FALSE
    /\ \E outcome \in FetchOutcomes :
          IF outcome.kind = "ok" /\ Len(outcome.connections) > 0
          THEN LET conns == [k \in 1..Len(outcome.connections) |->
                                ConnectionFromJson(ConnectionToJson(outcome.connections[k]))]
               IN  /\ rawConnections' = conns
                   /\ localStorage' = setCachedConnections(conns, clock)
          ELSE UNCHANGED <<rawConnections, localStorage>>
    /\ lastDeleted' = NoId
    /\ UNCHANGED <<mounted, selectedConnection, filters, clock, cached, notConn>>

\* addConnections(newConnections); the POST that follows changes nothing here
AddConnections ==
    /\ mounted
    /\ \E c \in ConnPool :
          LET updated == rawConnections \o <<c>>
          IN  /\ Len(updated) <= MaxConns
              /\ rawConnections' = updated
              /\ localStorage' = setCachedConnections(updated, clock)
    /\ lastDeleted' = NoId
    /\ UNCHANGED <<mounted, isLoading, selectedConnection, filters, clock,
                   pendingFetches, cached, notConn>>

\* deleteConnection(id) for a connection of the list; the DELETE that follows
\* changes nothing here
DeleteConnection ==
    /\ mounted
    /\ \E id \in IdsOf(rawConnections) :
          LET updated == deleteConnectionUpdated(rawConnections, id)
          IN  /\ rawConnections' = updated
              /\ localStorage' = setCachedConnections(updated, clock)
              /\ lastDeleted' = id
    /\ selectedConnection' = NullNode
    /\ UNCHANGED <<mounted, isLoading, filters, clock, pendingFetches, cached, notConn>>

ClearAllConnections ==
    /\ mounted
    /\ rawConnections' = <<>>
    /\ localStorage' = setCachedConnections(<<>>, clock)
    /\ selectedConnection' = NullNode
    /\ lastDeleted' = NoId
    /\ UNCHANGED <<mounted, isLoading, filters, clock, pendingFetches, cached, notConn>>

SetIndustryFilter ==
    /\ mounted
    /\ \E industries \in FilterIndustries : filters' = [filters EXCEPT !.industries = industries]
    /\ lastDeleted' = NoId
    /\ UNCHANGED <<mounted, rawConnections, isLoading, selectedConnection, localStorage,
                   clock, pendingFetches, cached, notConn>>

SetHeatFilter ==
    /\ mounted
    /\ \E heatStatuses \in FilterHeats : filters' = [filters EXCEPT !.heatStatuses = heatStatuses]
    /\ lastDeleted' = NoId
    /\ UNCHANGED <<mounted, rawConnections, isLoading, selectedConnection, localStorage,
                   clock, pendingFetches, cached, notConn>>

SetSearchQuery ==
    /\ mounted
    /\ \E searchQuery \in FilterQueries : filters' = [filters EXCEPT !.searchQuery = searchQuery]
    /\ lastDeleted' = NoId
    /\ UNCHANGED <<mounted, rawConnections, isLoading, selectedConnection, localStorage,
                   clock, pendingFetches, cached, notConn>>

SetMaxDegreeFilter ==
    /\ mounted
    /\ \E maxDegree \in FilterDegrees : filters' = [filters EXCEPT !.maxDegree = maxDegree]
    /\ lastDeleted' = NoId
    /\ UNCHANGED <<mounted, rawConnections, isLoading, selectedConnection, localStorage,
                   clock, pendingFetches, cached, notConn>>

ClearFilters ==
    /\ mounted
    /\ filters' = NoFilters
    /\ lastDeleted' = NoId
    /\ UNCHANGED <<mounted, rawConnections, isLoading, selectedConnection, localStorage,
                   clock, pendingFetches, cached, notConn>>

\* selectConnection(connection): a node of the graph is clicked, or null
SelectConnection ==
    /\ mounted
    /\ \E node \in Elems(FilteredConnections) \cup {NullNode} : selectedConnection' = node
    /\ lastDeleted' = NoId
    /\ UNCHANGED <<mounted, rawConnections, isLoading, filters, localStorage,
                   clock, pendingFetches, cached, notConn>>

\* more than CACHE_DURATION passes
ConnTick ==
    /\ clock + CACHE_DURATION + 1 <= Epoch + ConnClockSteps * (CACHE_DURATION + 1)
    /\ clock' = clock + CACHE_DURATION + 1
    /\ UNCHANGED <<mounted, rawConnections, isLoading, selectedConnection, filters,
                   localStorage, pendingFetches, lastDeleted, cached, notConn>>

ConnNext ==
    \/ Mount
    \/ Refresh
    \/ FetchSettle
    \/ AddConnections
    \/ DeleteConnection
    \/ ClearAllConnections
    \/ SetIndustryFilter
    \/ SetHeatFilter
    \/ SetSearchQuery
    \/ SetMaxDegreeFilter
    \/ ClearFilters
    \/ SelectConnection
    \/ ConnTick

\* ------------------------------------------------------------------------
\* EmailDashboard: cache and fetchEmails
\* ------------------------------------------------------------------------

\* const CACHE_TTL = 24 * 60 * 60 * 1000, in seconds
CACHE_TTL == 24 * 60 * 60

\* stats === null
NoStats == [isNull |-> TRUE, total |-> 0]

\* localStorage.getItem(CACHE_KEY) === null
NoEmailItem ==
    [present |-> FALSE, emails |-> <<>>, stats |-> NoStats, timestamp |-> 0,
     source |-> "starred"]

\* JSON.stringify / JSON.parse of an email: the date becomes its toJSON()
EmailToJson(email) == [email EXCEPT !.date = DateToJson(email.date)]

\* { ...email, date: new Date(email.date) }
EmailFromJson(email) == [email EXCEPT !.date = NewDate(email.date)]

EmailsToJson(emails) == [k \in 1..Len(emails) |-> EmailToJson(emails[k])]
EmailsFromJson(emails) == [k \in 1..Len(emails) |-> EmailFromJson(emails[k])]

\* the item fetchEmails writes after a successful response
CachedEmailData(emailsWithDates, statsData, now, targetSource) ==
    [present |-> TRUE, emails |-> EmailsToJson(emailsWithDates), stats |-> statsData,
     timestamp |-> now, source |-> targetSource]

\* mutant: an entry exactly CACHE_TTL old is still valid
loadFromCache_inclusive(item, now) ==
    IF item.present /\ now - item.timestamp <= CACHE_TTL
    THEN [isNull |-> FALSE, data |-> item]
    ELSE [isNull |-> TRUE, data |-> NoEmailItem]

\* loadFromCache(): the parsed item while it is valid, null otherwise
loadFromCache(item, now) ==
    IF item.present /\ now - item.timestamp < CACHE_TTL
    THEN [isNull |-> FALSE, data |-> item]
    ELSE [isNull |-> TRUE, data |-> NoEmailItem]

\* fetchEmails: the cache is used
ServedFromCache(forceRefresh, targetSource, item, now) ==
    /\ ~forceRefresh
    /\ ~loadFromCache(item, now).isNull
    /\ loadFromCache(item, now).data.source = targetSource

\* fetchEmails, targetSource 'all': the response followed by the starred
\* emails held before that are not in it
MergeEmails(emailsWithDates, held) ==
    emailsWithDates \o
        SelectSeq(held, LAMBDA e : e.isStarred /\ e.id \notin IdsOf(emailsWithDates))

\* ---- specification of the dashboard --------------------------------------


DashEmail(id, isStarred, date) == [id |-> id, isStarred |-> isStarred, date |-> date]

Starred1 == DashEmail("s1", TRUE, DateToJson(DateOf(Epoch - DAY)))
Starred2 == DashEmail("s2", TRUE, DateToJson(DateOf(Epoch - 2 * DAY)))
\* parseMessage gave an Invalid Date, which the API serialises as null
Plain1 == DashEmail("p1", FALSE, DateToJson(InvalidDate))

\* what GET /api/email/list?filter=... may answer with (data.emails)
ServerEmails(filter) ==
    IF filter = "starred" THEN {<<>>, <<Starred1>>, <<Starred1, Starred2>>}
    ELSE {<<Plain1>>, <<Plain1, Starred1>>}

\* how a request for the list settles
ListOutcomes(filter) ==
    {[kind |-> k, emails |-> <<>>] : k \in {"401", "500", "rejected"}}
    \cup {[kind |-> "ok", emails |-> list] : list \in ServerEmails(filter)}

\* data.stats of a response
StatsOf(emails) == [isNull |-> FALSE, total |-> Len(emails)]

\* the most list requests pending at once
MaxDashPending == 2

\* the number of clock steps of the dashboard specification
MaxDashTicks == 2

DashTicks == {1, CACHE_TTL - 1}

DashClocks ==
    {Epoch + a * (CACHE_TTL - 1) + b :
        a \in 0..MaxDashTicks, b \in 0..MaxDashTicks} \cap
    {Epoch + a * (CACHE_TTL - 1) + (n - a) :
        a \in 0..MaxDashTicks, n \in 0..MaxDashTicks}

NoFetch ==
    [op |-> "none", forceRefresh |-> FALSE, targetSource |-> "starred",
     kind |-> "none", emails |-> <<>>]

\* fetchEmails(forceRefresh, targetSource) was called
FetchCalled(op, forceRefresh, targetSource) ==
    [op |-> op, forceRefresh |-> forceRefresh, targetSource |-> targetSource,
     kind |-> "none", emails |-> <<>>]

\* a request of fetchEmails settled
FetchSettled(targetSource, outcome) ==
    [op |-> "settle", forceRefresh |-> FALSE, targetSource |-> targetSource,
     kind |-> outcome.kind, emails |-> outcome.emails]

\* a pending request: the target, the allEmails of the closure, the caller
PendingList(targetSource, held, caller) ==
    [targetSource |-> targetSource, allEmails |-> held, caller |-> caller]

RemoveAt(seq, k) == SubSeq(seq, 1, k - 1) \o SubSeq(seq, k + 1, Len(seq))

DashIdle ==
    /\ dashMounted = FALSE
    /\ allEmails = <<>>
    /\ emailStats = NoStats
    /\ connected = FALSE
    /\ loading = TRUE
    /\ refreshing = FALSE
    /\ source = "starred"
    /\ error = "null"
    /\ usingCache = FALSE
    /\ hasLoadedAll = FALSE
    /\ emailCache = NoEmailItem
    /\ dashNow = Epoch
    /\ pendingLists = <<>>
    /\ lastFetch = NoFetch

\* the page is loaded (again) and checkConnection settles: when connected,
\* init calls fetchEmails(false, 'starred'), otherwise it clears the cache
DashMount ==
    /\ \E isConnected \in BOOLEAN :
          /\ connected' = isConnected
          /\ IF isConnected
             THEN IF ServedFromCache(FALSE, "starred", emailCache, dashNow)
                  THEN /\ allEmails' = EmailsFromJson(emailCache.emails)
                       /\ emailStats' = emailCache.stats
                       /\ usingCache' = TRUE
                       /\ loading' = FALSE
                       /\ pendingLists' = <<>>
                       /\ lastFetch' = FetchCalled("serve", FALSE, "starred")
                       /\ UNCHANGED emailCache
                  ELSE /\ allEmails' = <<>>
                       /\ emailStats' = NoStats
                       /\ usingCache' = FALSE
                       /\ loading' = TRUE
                       /\ pendingLists' = <<PendingList("starred", <<>>, "init")>>
                       /\ lastFetch' = FetchCalled("request", FALSE, "starred")
                       /\ UNCHANGED emailCache
             ELSE /\ allEmails' = <<>>
                  /\ emailStats' = NoStats
                  /\ usingCache' = FALSE
                  /\ loading' = FALSE
                  /\ pendingLists' = <<>>
                  /\ lastFetch' = NoFetch
                  /\ emailCache' = NoEmailItem
    /\ dashMounted' = TRUE
    /\ refreshing' = FALSE
    /\ source' = "starred"
    /\ error' = "null"
    /\ hasLoadedAll' = FALSE
    /\ UNCHANGED <<dashNow, notDash>>

\* refresh(): fetchEmails(true) up to the await
DashRefresh ==
    /\ dashMounted /\ ~loading /\ connected /\ ~refreshing
    /\ Len(pendingLists) < MaxDashPending
    /\ refreshing' = TRUE
    /\ error' = "null"
    /\ usingCache' = FALSE
    /\ pendingLists' = Append(pendingLists, PendingList(source, allEmails, "refresh"))
    /\ lastFetch' = FetchCalled("request", TRUE, source)
    /\ UNCHANGED <<dashMounted, allEmails, emailStats, connected, loading, source,
                   hasLoadedAll, emailCache, dashNow, notDash>>

\* a source button is clicked; the toggle effect calls fetchEmails(true, 'all')
\* when 'all' is shown and has not been loaded
DashSetSource ==
    /\ dashMounted /\ ~loading /\ connected
    /\ \E s \in {"starred", "all"} \ {source} :
          /\ source' = s
          /\ IF s = "all" /\ ~hasLoadedAll
             THEN /\ Len(pendingLists) < MaxDashPending
                  /\ refreshing' = TRUE
                  /\ error' = "null"
                  /\ usingCache' = FALSE
                  /\ pendingLists' = Append(pendingLists, PendingList("all", allEmails, "toggle"))
                  /\ lastFetch' = FetchCalled("request", TRUE, "all")
             ELSE /\ lastFetch' = NoFetch
                  /\ UNCHANGED <<refreshing, error, usingCache, pendingLists>>
    /\ UNCHANGED <<dashMounted, allEmails, emailStats, connected, loading, hasLoadedAll,
                   emailCache, dashNow, notDash>>

\* a list request settles and fetchEmails and its caller run to their ends;
\* a refresh that changed allEmails makes the toggle effect run again
DashSettle ==
    /\ dashMounted
    /\ \E k \in 1..Len(pendingLists) :
       \E outcome \in ListOutcomes(pendingLists[k].targetSource) :
          LET p == pendingLists[k]
              emailsWithDates == EmailsFromJson(outcome.emails)
              ok == outcome.kind = "ok"
              shown == IF ~ok THEN allEmails
                       ELSE IF p.targetSource = "all" /\ Len(p.allEmails) > 0
                            THEN MergeEmails(emailsWithDates, p.allEmails)
                            ELSE emailsWithDates
              online == IF outcome.kind = "401" THEN FALSE ELSE connected
              loaded == IF p.caller = "toggle" THEN TRUE ELSE hasLoadedAll
              stillLoading == IF p.caller = "init" THEN FALSE ELSE loading
              again == /\ p.caller = "refresh" /\ ok
                       /\ ~stillLoading /\ online /\ source = "all" /\ ~loaded
          IN  /\ allEmails' = shown
              /\ emailStats' = IF ok THEN StatsOf(outcome.emails) ELSE emailStats
              /\ emailCache' =
                    CASE ok -> CachedEmailData(emailsWithDates, StatsOf(outcome.emails),
                                               dashNow, p.targetSource)
                      [] outcome.kind = "401" -> NoEmailItem
                      [] OTHER -> emailCache
              /\ connected' = online
              /\ hasLoadedAll' = loaded
              /\ loading' = stillLoading
              /\ IF again
                 THEN /\ refreshing' = TRUE
                      /\ error' = "null"
                      /\ usingCache' = FALSE
                      /\ pendingLists' =
                            Append(RemoveAt(pendingLists, k), PendingList("all", shown, "toggle"))
                 ELSE /\ refreshing' = IF p.caller = "init" THEN refreshing ELSE FALSE
                      /\ error' = IF outcome.kind \in {"500", "rejected"}
                                  THEN "Failed to fetch" ELSE error
                      /\ UNCHANGED usingCache
                      /\ pendingLists' = RemoveAt(pendingLists, k)
              /\ lastFetch' = FetchSettled(p.targetSource, outcome)
    /\ UNCHANGED <<dashMounted, source, dashNow, notDash>>

\* disconnect(), the DELETE having succeeded
DashDisconnect ==
    /\ dashMounted /\ ~loading /\ connected
    /\ connected' = FALSE
    /\ allEmails' = <<>>
    /\ emailStats' = NoStats
    /\ emailCache' = NoEmailItem
    /\ hasLoadedAll' = FALSE
    /\ lastFetch' = NoFetch
    /\ UNCHANGED <<dashMounted, loading, refreshing, source, error, usingCache,
                   dashNow, pendingLists, notDash>>

\* time passes
DashTick ==
    /\ \E t \in DashTicks :
          /\ dashNow + t \in DashClocks
          /\ dashNow' = dashNow + t
    /\ lastFetch' = NoFetch
    /\ UNCHANGED <<dashMounted, allEmails, emailStats, connected, loading, refreshing,
                   source, error, usingCache, hasLoadedAll, emailCache, pendingLists,
                   notDash>>

DashNext ==
    \/ DashMount
    \/ DashRefresh
    \/ DashSetSource
    \/ DashSettle
    \/ DashDisconnect
    \/ DashTick

\* ------------------------------------------------------------------------
\* POST /api/connections
\* ------------------------------------------------------------------------

\* a connection of the request body: a well-formed one, one whose
\* lastContactDate is no date (toISOString throws a RangeError), or null
\* (reading conn.id throws a TypeError)
PostConn(id, kind) == [id |-> id, kind |-> kind]

\* building the INSERT statement of a connection throws
BuildSqlThrows(conn) == conn.kind # "valid"

\* how an executeInsert call ends: the statement ran ("ok"), Snowflake
\* answered with an error status ("error"), or the fetch rejected, the
\* statement having run ("lost") or not ("rejected")
InsertOutcomes == {"ok", "error", "lost", "rejected"}

\* mutant: executeInsert does not look at the response
InsertThrows_never(outcome) == FALSE

\* executeInsert throws: !response.ok, or the fetch rejected
InsertThrows(outcome) == outcome # "ok"

\* the statement was applied to the table
InsertApplied(outcome) == outcome \in {"ok", "lost"}

\* the responses of the handler
PostSuccess(count) == [status |-> 200, success |-> TRUE, count |-> count]
PostFailure == [status |-> 500, success |-> FALSE, count |-> 0]
NoResponse == [status |-> 0, success |-> FALSE, count |-> 0]

\* ---- specification of the handler ----------------------------------------

\* the longest array of a request body
MaxBody == 3

\* the most rows the table holds
MaxRows == 4

PostPool == {PostConn("v1", "valid"), PostConn("v2", "valid"),
             PostConn("b1", "baddate"), PostConn("null", "null")}

\* request bodies: no JSON at all, a single object, an array
PostBodies ==
    {[kind |-> "invalid", items |-> <<>>]}
    \cup {[kind |-> "object", items |-> <<c>>] : c \in PostPool}
    \cup UNION {{[kind |-> "array", items |-> items] : items \in [1..n -> PostPool]} :
                   n \in 0..MaxBody}

PostIdle ==
    /\ postPc = "idle"
    /\ postConnections = <<>>
    /\ postAttempts = <<>>
    /\ table = <<>>
    /\ tableBefore = 0
    /\ postResponse = NoResponse

\* the for loop at connection i, the attempts made so far being given
PostLoop(conns, i, attempts) ==
    IF i > Len(conns)
    THEN /\ postResponse' = PostSuccess(Len(conns))
         /\ postAttempts' = attempts
         /\ postPc' = "done"
    ELSE IF BuildSqlThrows(conns[i])
         THEN /\ postResponse' = PostFailure
              /\ postAttempts' = attempts
              /\ postPc' = "done"
         ELSE /\ postAttempts' = Append(attempts, [index |-> i, outcome |-> "pending"])
              /\ postPc' = "insert"
              /\ UNCHANGED postResponse

\* POST(request) up to the first await executeInsert, or to its end
PostReceive ==
    /\ postPc = "idle"
    /\ \E body \in PostBodies :
          /\ Len(table) + Len(body.items) <= MaxRows
          /\ IF body.kind = "invalid"
             THEN /\ postConnections' = <<>>
                  /\ postAttempts' = <<>>
                  /\ postResponse' = PostFailure
                  /\ postPc' = "done"
             ELSE /\ postConnections' = body.items
                  /\ PostLoop(body.items, 1, <<>>)
    /\ tableBefore' = Len(table)
    /\ UNCHANGED <<table, notPost>>

\* the pending executeInsert settles and the handler runs on
PostInsertSettle ==
    /\ postPc = "insert"
    /\ \E outcome \in InsertOutcomes :
          LET i == Len(postAttempts)
              attempts == [postAttempts EXCEPT ![i].outcome = outcome]
          IN  /\ table' = IF InsertApplied(outcome)
                          THEN Append(table, postConnections[i].id) ELSE table
              /\ IF InsertThrows(outcome)
                 THEN /\ postAttempts' = attempts
                      /\ postResponse' = PostFailure
                      /\ postPc' = "done"
                 ELSE PostLoop(postConnections, i + 1, attempts)
    /\ UNCHANGED <<postConnections, tableBefore, notPost>>

\* the response is sent
PostReturn ==
    /\ postPc = "done"
    /\ postPc' = "idle"
    /\ postConnections' = <<>>
    /\ postAttempts' = <<>>
    /\ postResponse' = NoResponse
    /\ tableBefore' = Len(table)
    /\ UNCHANGED <<table, notPost>>

PostNext == PostReceive \/ PostInsertSettle \/ PostReturn

\* ------------------------------------------------------------------------
\* sortByPriority (lib/gemini/service.ts)
\* ------------------------------------------------------------------------

\* a - b of two JavaScript numbers
Minus(a, b) == IF a.nan \/ b.nan THEN NaN ELSE Num(a.n - b.n)

\* priorityOrder[priority]: undefined, a NaN in the subtraction, for a
\* priority that is no key of the record
priorityOrder(priority) ==
    CASE priority = "HIGH" -> Num(0)
      [] priority = "MEDIUM" -> Num(1)
      [] priority = "LOW" -> Num(2)
      [] OTHER -> NaN

\* the comparator given to sort: NaN !== 0, so a NaN priorityDiff is returned
compareFn(a, b) ==
    LET priorityDiff == Minus(priorityOrder(a.analysis.priority),
                              priorityOrder(b.analysis.priority))
    IN  IF priorityDiff # Num(0) THEN priorityDiff
        ELSE Minus(a.date, b.date)

\* what Array.prototype.sort makes of a comparator result: NaN counts as +0
SortOrder(v) == IF v.nan \/ v.n = 0 THEN 0 ELSE IF v.n < 0 THEN -1 ELSE 1

\* the comparator is a consistent comparator for the elements of the array
\* (ECMAScript 23.1.3.30.2: antisymmetric, and equality and order transitive)
ConsistentComparator(emails) ==
    LET n == Len(emails)
        c(i, j) == SortOrder(compareFn(emails[i], emails[j]))
    IN  \A i, j, k \in 1..n :
           /\ c(i, j) = -c(j, i)
           /\ (c(i, j) = 0 /\ c(j, k) = 0) => c(i, k) = 0
           /\ (c(i, j) < 0 /\ c(j, k) < 0) => c(i, k) < 0
           /\ (c(i, j) = 0 /\ c(j, k) < 0) => c(i, k) < 0
           /\ (c(i, j) < 0 /\ c(j, k) = 0) => c(i, k) < 0

\* the stable sort of an array under a consistent comparator: the last
\* element goes behind the elements of the sorted rest that are not greater
RECURSIVE StableSort(_)
StableSort(emails) ==
    IF Len(emails) <= 1 THEN emails
    ELSE LET n == Len(emails)
             x == emails[n]
             rest == StableSort(SubSeq(emails, 1, n - 1))
             k == Cardinality({j \in 1..(n - 1) :
                                  SortOrder(compareFn(rest[j], x)) <= 0})
         IN  SubSeq(rest, 1, k) \o <<x>> \o SubSeq(rest, k + 1, n - 1)

\* the rearrangements of an array
Rearrangements(emails) ==
    LET n == Len(emails)
    IN  {[k \in 1..n |-> emails[p[k]]] :
            p \in {q \in [1..n -> 1..n] : \A i, j \in 1..n : q[i] = q[j] => i = j}}

\* the arrays [...emails].sort(compareFn) can return: the stable sort, or,
\* the comparator being inconsistent, an order the implementation defines
sortByPriority(emails) ==
    IF ConsistentComparator(emails) THEN {StableSort(emails)}
    ELSE Rearrangements(emails)

\* ------------------------------------------------------------------------
\* GET /api/email/list, GET /api/email/starred, GmailService.fetchMessages
\* ------------------------------------------------------------------------

\* const batchSize = 10
batchSize == 10

\* getStarredEmails(8) / getRecentEmails(8) of the list route,
\* getStarredEmails(50) of the starred route
maxResults(route) == IF route = "list" THEN 8 ELSE 50

\* the ids of the messages of the mailbox
MsgIds == <<"m1", "m2", "m3", "m4", "m5", "m6", "m7", "m8", "m9", "m10", "m11">>

\* a message reference of a messages.list response; id NoId: no id
Ref(id) == [id |-> id]

\* what messages.get answers for an id: the second message carries a
\* keyword in its subject, every third one has no internalDate
GmailMessage(id) ==
    LET k == CHOOSE j \in 1..Len(MsgIds) : MsgIds[j] = id
    IN  [id |-> id,
         subject |-> IF k = 2 THEN <<"U","R","G","E","N","T">> ELSE <<>>,
         snippet |-> <<>>,
         internalDate |-> IF k % 3 = 0 THEN [absent |-> TRUE, n |-> 0]
                          ELSE [absent |-> FALSE, n |-> Epoch - (k % 2) * DAY],
         labelIds |-> IF k % 2 = 1 THEN {"STARRED", "INBOX"} ELSE {"INBOX"}]

\* headers['subject'] || '(no subject)'
NoSubject == <<"(","n","o"," ","s","u","b","j","e","c","t",")">>

\* parseMessage(message)
parseMessage(message) ==
    [id |-> message.id,
     subject |-> IF message.subject = <<>> THEN NoSubject ELSE message.subject,
     snippet |-> message.snippet,
     date |-> IF message.internalDate.absent THEN DateOf(0)
              ELSE DateOf(message.internalDate.n),
     isStarred |-> "STARRED" \in message.labelIds]

\* refs.slice(i, i + batchSize), i counted from 1
Batch(refs, i) == SubSeq(refs, i, Min(i + batchSize - 1, Len(refs)))

\* the references of a batch a messages.get request is made for
Requested(batch) == SelectSeq(batch, LAMBDA ref : ref.id # NoId)

\* mutant: a failed request is skipped and the others are kept
BatchRejects_never(failed) == FALSE

\* Promise.all(batch.map(...)) rejects: one of the requests failed
BatchRejects(failed) == failed # {}

\* results.filter(m => m !== null) of a batch whose requests in failed were
\* not answered
BatchMessages(batch, failed) ==
    LET answered == SelectSeq(Requested(batch), LAMBDA ref : ref.id \notin failed)
    IN  [k \in 1..Len(answered) |-> parseMessage(GmailMessage(answered[k].id))]

\* the calls of the Gmail API
ListCall(q) == [op |-> "list", arg |-> q]
GetCall(id) == [op |-> "get", arg |-> id]
GetCalls(batch) ==
    LET req == Requested(batch) IN [k \in 1..Len(req) |-> GetCall(req[k].id)]

\* mutant: the cookie is not looked at
NoSessionCookie_never(sessionId) == FALSE

\* !sessionId
NoSessionCookie(sessionId) == sessionId = NoId

\* the responses of the handlers
ListStats(emails) ==
    [total |-> Len(emails),
     high |-> Len(SelectSeq(emails, LAMBDA e : e.analysis.priority = "HIGH")),
     medium |-> Len(SelectSeq(emails, LAMBDA e : e.analysis.priority = "MEDIUM")),
     low |-> Len(SelectSeq(emails, LAMBDA e : e.analysis.priority = "LOW")),
     needsResponse |-> Len(SelectSeq(emails,
                              LAMBDA e : e.analysis.action = "RESPONSE_NEEDED"))]
ListUnauthorized(code) ==
    [status |-> 401, code |-> code, hasEmails |-> FALSE, emails |-> <<>>,
     stats |-> ListStats(<<>>)]
ListFailed ==
    [status |-> 500, code |-> "", hasEmails |-> FALSE, emails |-> <<>>,
     stats |-> ListStats(<<>>)]
ListOk(emails) ==
    [status |-> 200, code |-> "", hasEmails |-> TRUE, emails |-> emails,
     stats |-> ListStats(emails)]
NoListResponse ==
    [status |-> 0, code |-> "", hasEmails |-> FALSE, emails |-> <<>>,
     stats |-> ListStats(<<>>)]

\* ---- specification of the two handlers -----------------------------------

\* the session ids of the model
SessionIds == {"s1", "s2"}

\* the longest list of emails whose answers of the generative API are
\* chosen one by one
MaxFreeAnswers == 3

NoIdRef == Ref(NoId)
LongRefs == [k \in 1..Len(MsgIds) |-> Ref(MsgIds[k])]

\* the message lists of messages.list
RefLists ==
    {<<>>, <<NoIdRef>>, <<Ref("m1")>>, <<Ref("m1"), NoIdRef, Ref("m2")>>,
     <<Ref("m3"), Ref("m2"), Ref("m1")>>, LongRefs}

\* the answers of the generative API to the prompts of the emails
ListAnswers(emails) ==
    LET n == Len(emails)
        each == GemSingleOutcomes \cup {ApiText(TRUE, "object", "LOW", "FYI", <<>>)}
        cycle == <<ApiText(TRUE, "object", "LOW", "FYI", <<>>),
                   ApiText(FALSE, "object", "MEDIUM", "WAITING", <<>>),
                   ApiText(TRUE, "object", "HIGH", "RESPONSE_NEEDED", <<>>)>>
    IN  IF n <= MaxFreeAnswers THEN [1..n -> each]
        ELSE {[k \in 1..n |-> ApiError(429)], [k \in 1..n |-> cycle[(k % 3) + 1]]}

\* the failures a batch of requests can meet: none, one request, all
BatchFailures(batch) ==
    LET ids == {Requested(batch)[k].id : k \in 1..Len(Requested(batch))}
    IN  {{}} \cup {{id} : id \in ids} \cup {ids}

ListIdle ==
    /\ tokenStore = {}
    /\ lPc = "idle"
    /\ lRoute = "list"
    /\ lFilter = "starred"
    /\ lSession = NoId
    /\ lRefs = <<>>
    /\ lI = 1
    /\ lMessages = <<>>
    /\ lError = "none"
    /\ gmailCalls = <<>>
    /\ geminiCalls = 0
    /\ lResponse = NoListResponse

\* the handler returns a response
ListRespond(response, thrown) ==
    /\ lResponse' = response
    /\ lError' = thrown
    /\ lPc' = "done"

\* the handler after fetchMessages (or the empty list) gave emails
ListAfterEmails(emails) ==
    IF lRoute = "list" /\ emails = <<>>
    THEN ListRespond(ListOk(<<>>), "none")
    ELSE \E hasApiKey \in BOOLEAN :
            IF hasApiKey
            THEN /\ lPc' = "analyze"
                 /\ UNCHANGED <<lResponse, lError>>
            ELSE ListRespond(ListFailed, "Missing GEMINI_API_KEY")

\* fetchMessages at the batch starting at i
ListBatch(refs, i, messages) ==
    /\ lI' = i
    /\ lMessages' = messages
    /\ IF i > Len(refs)
       THEN /\ ListAfterEmails(messages)
            /\ UNCHANGED gmailCalls
       ELSE /\ gmailCalls' = gmailCalls \o GetCalls(Batch(refs, i))
            /\ lPc' = "get"
            /\ UNCHANGED <<lResponse, lError>>

\* GET(request) up to await tokenStorage.getTokens, or to the NO_SESSION
\* response
ListReceive ==
    /\ lPc = "idle"
    /\ \E route \in {"list", "starred"}, filter \in {"starred", "all"},
          sessionId \in SessionIds \cup {NoId} :
          /\ route = "starred" => filter = "starred"
          /\ lRoute' = route
          /\ lFilter' = filter
          /\ lSession' = sessionId
          /\ IF NoSessionCookie(sessionId)
             THEN ListRespond(ListUnauthorized("NO_SESSION"), "none")
             ELSE /\ lPc' = "tokens"
                  /\ UNCHANGED <<lResponse, lError>>
    /\ UNCHANGED <<tokenStore, lRefs, lI, lMessages, gmailCalls, geminiCalls, notList>>

\* getTokens resolved: the EXPIRED_SESSION response, or new GmailService and
\* the messages.list call
ListTokens ==
    /\ lPc = "tokens"
    /\ IF lSession \notin tokenStore
       THEN /\ ListRespond(ListUnauthorized("EXPIRED_SESSION"), "none")
            /\ UNCHANGED gmailCalls
       ELSE \E hasCredentials \in BOOLEAN :
               IF hasCredentials
               THEN /\ gmailCalls' = Append(gmailCalls,
                         ListCall(IF lFilter = "starred" THEN "is:starred"
                                  ELSE "category:primary"))
                    /\ lPc' = "list"
                    /\ UNCHANGED <<lResponse, lError>>
               ELSE /\ ListRespond(ListFailed, "Missing Google OAuth credentials")
                    /\ UNCHANGED gmailCalls
    /\ UNCHANGED <<tokenStore, lRoute, lFilter, lSession, lRefs, lI, lMessages,
                   geminiCalls, notList>>

\* messages.list settled
ListSettle ==
    /\ lPc = "list"
    /\ \E rejected \in BOOLEAN, refs \in RefLists :
          /\ Len(refs) <= maxResults(lRoute)
          /\ rejected => refs = <<>>
          /\ IF rejected
             THEN /\ ListRespond(ListFailed, "list")
                  /\ UNCHANGED <<lRefs, lI, lMessages, gmailCalls>>
             ELSE /\ lRefs' = refs
                  /\ ListBatch(refs, 1, <<>>)
    /\ UNCHANGED <<tokenStore, lRoute, lFilter, lSession, geminiCalls, notList>>

\* the Promise.all of the current batch settled
ListGetSettle ==
    /\ lPc = "get"
    /\ \E failed \in BatchFailures(Batch(lRefs, lI)) :
          IF BatchRejects(failed)
          THEN /\ ListRespond(ListFailed, "get")
               /\ UNCHANGED <<lI, lMessages, gmailCalls>>
          ELSE ListBatch(lRefs, lI + batchSize,
                         lMessages \o BatchMessages(Batch(lRefs, lI), failed))
    /\ UNCHANGED <<tokenStore, lRoute, lFilter, lSession, lRefs, geminiCalls, notList>>

\* analyzeAndEnrich resolved; sortByPriority, the stats and the response
ListAnalyzeSettle ==
    /\ lPc = "analyze"
    /\ \E answers \in ListAnswers(lMessages) :
          LET analyses == [k \in 1..Len(lMessages) |->
                              SequentialItem(lMessages[k], answers[k])]
          IN  \E sortedEmails \in sortByPriority(Enrich(lMessages, analyses)) :
                 ListRespond(ListOk(sortedEmails), "none")
    /\ geminiCalls' = geminiCalls + Len(lMessages)
    /\ UNCHANGED <<tokenStore, lRoute, lFilter, lSession, lRefs, lI, lMessages,
                   gmailCalls, notList>>

\* the response is sent; the next request starts afresh
ListReturn ==
    /\ lPc = "done"
    /\ lPc' = "idle"
    /\ lRoute' = "list"
    /\ lFilter' = "starred"
    /\ lSession' = NoId
    /\ lRefs' = <<>>
    /\ lI' = 1
    /\ lMessages' = <<>>
    /\ lError' = "none"
    /\ gmailCalls' = <<>>
    /\ geminiCalls' = 0
    /\ lResponse' = NoListResponse
    /\ UNCHANGED <<tokenStore, notList>>

\* the OAuth callback stores the tokens of a new session
SaveTokens ==
    /\ \E sessionId \in SessionIds : tokenStore' = tokenStore \cup {sessionId}
    /\ UNCHANGED <<lPc, lRoute, lFilter, lSession, lRefs, lI, lMessages, lError,
                   gmailCalls, geminiCalls, lResponse, notList>>

\* DELETE /api/email/status removes the tokens of a session
DeleteTokens ==
    /\ \E sessionId \in tokenStore : tokenStore' = tokenStore \ {sessionId}
    /\ UNCHANGED <<lPc, lRoute, lFilter, lSession, lRefs, lI, lMessages, lError,
                   gmailCalls, geminiCalls, lResponse, notList>>

ListNext ==
    \/ ListReceive
    \/ ListTokens
    \/ ListSettle
    \/ ListGetSettle
    \/ ListAnalyzeSettle
    \/ ListReturn
    \/ SaveTokens
    \/ DeleteTokens

\* ------------------------------------------------------------------------
\* LinkedIn CSV import (components/LinkedInImport/LinkedInImport.tsx)
\* ------------------------------------------------------------------------

\* String.prototype.trim: the spaces at both ends are removed
RECURSIVE trim(_)
trim(s) ==
    IF s = <<>> THEN s
    ELSE IF Head(s) = " " THEN trim(Tail(s))
    ELSE IF s[Len(s)] = " " THEN trim(SubSeq(s, 1, Len(s) - 1))
    ELSE s

\* the rules of guessIndustry, in order: the industry and its keywords
IndustryRules == <<
    [industry |-> <<"T","e","c","h","n","o","l","o","g","y">>,
     words |-> {<<"s","o","f","t","w","a","r","e">>,
               <<"t","e","c","h">>,
               <<"d","e","v","e","l","o","p","e","r">>,
               <<"e","n","g","i","n","e","e","r">>}],
    [industry |-> <<"F","i","n","a","n","c","e">>,
     words |-> {<<"b","a","n","k">>,
               <<"f","i","n","a","n","c","e">>,
               <<"i","n","v","e","s","t","m","e","n","t">>,
               <<"c","a","p","i","t","a","l">>}],
    [industry |-> <<"M","a","r","k","e","t","i","n","g">>,
     words |-> {<<"m","a","r","k","e","t","i","n","g">>,
               <<"b","r","a","n","d">>,
               <<"a","d","v","e","r","t","i","s","i","n","g">>}],
    [industry |-> <<"S","a","l","e","s">>,
     words |-> {<<"s","a","l","e","s">>,
               <<"b","u","s","i","n","e","s","s"," ","d","e","v","e","l","o","p","m","e","n","t">>}],
    [industry |-> <<"D","e","s","i","g","n">>,
     words |-> {<<"d","e","s","i","g","n">>,
               <<"c","r","e","a","t","i","v","e">>,
               <<"u","x">>,
               <<"u","i">>}],
    [industry |-> <<"H","e","a","l","t","h","c","a","r","e">>,
     words |-> {<<"h","e","a","l","t","h">>,
               <<"m","e","d","i","c","a","l">>,
               <<"h","o","s","p","i","t","a","l">>,
               <<"p","h","a","r","m","a">>}],
    [industry |-> <<"C","o","n","s","u","l","t","i","n","g">>,
     words |-> {<<"c","o","n","s","u","l","t">>}],
    [industry |-> <<"L","e","g","a","l">>,
     words |-> {<<"l","e","g","a","l">>,
               <<"l","a","w">>,
               <<"a","t","t","o","r","n","e","y">>}],
    [industry |-> <<"R","e","a","l"," ","E","s","t","a","t","e">>,
     words |-> {<<"r","e","a","l"," ","e","s","t","a","t","e">>,
               <<"p","r","o","p","e","r","t","y">>}],
    [industry |-> <<"E","d","u","c","a","t","i","o","n">>,
     words |-> {<<"u","n","i","v","e","r","s","i","t","y">>,
               <<"s","c","h","o","o","l">>,
               <<"e","d","u","c","a","t","i","o","n">>,
               <<"p","r","o","f","e","s","s","o","r">>}] >>

Other == <<"O","t","h","e","r">>

\* guessIndustry(company, position): the first rule with a keyword in
\* `${company} ${position}`.toLowerCase()
guessIndustry(company, position) ==
    LET text == toLowerCase(company \o <<" ">> \o position)
        hits == {r \in 1..Len(IndustryRules) :
                    \E w \in IndustryRules[r].words : includes(text, w)}
    IN  IF hits = {} THEN Other
        ELSE IndustryRules[CHOOSE r \in hits : \A q \in hits : r <= q].industry

\* the strings the conversion writes
Unknown == <<"U","n","k","n","o","w","n">>
UnknownPosition == <<"U","n","k","n","o","w","n"," ","P","o","s","i","t","i","o","n">>
UnknownCompany == <<"U","n","k","n","o","w","n"," ","C","o","m","p","a","n","y">>

\* a Connected On value of an export, and a text that is no date
Jan15 == <<"1","5"," ","J","a","n"," ","2","0","2","4">>
NotADate == <<"n","/","a">>

\* new Date(text) of a string
DateParse(text) == IF text = Jan15 THEN DateOf(Epoch - 300 * DAY) ELSE InvalidDate

\* mutant: the parsed date is taken unchecked
lastContactDateOf_unchecked(row, now) ==
    IF row.ConnectedOn # <<>> THEN DateParse(row.ConnectedOn) ELSE DateOf(now)

\* let lastContactDate = new Date(); if (row['Connected On']) { ... }
lastContactDateOf(row, now) ==
    IF row.ConnectedOn # <<>> /\ ~DateParse(row.ConnectedOn).nan
    THEN DateParse(row.ConnectedOn)
    ELSE DateOf(now)

\* linkedInRowToConnection(row, index); an absent email or connectedThrough
\* is the empty value
linkedInRowToConnection(row, index, now) ==
    LET name == trim(row.FirstName \o <<" ">> \o row.LastName)
    IN  [id |-> [index |-> index, now |-> now],
         name |-> IF name = <<>> THEN Unknown ELSE name,
         title |-> IF row.Position = <<>> THEN UnknownPosition ELSE row.Position,
         company |-> IF row.Company = <<>> THEN UnknownCompany ELSE row.Company,
         industry |-> guessIndustry(row.Company, row.Position),
         email |-> row.EmailAddress,
         lastContactDate |-> lastContactDateOf(row, now),
         degree |-> 1,
         connectedThrough |-> NoId]

\* rows.map(linkedInRowToConnection).filter(conn => conn.name !== 'Unknown')
newConnectionsOf(rows, now) ==
    SelectSeq([k \in 1..Len(rows) |-> linkedInRowToConnection(rows[k], k - 1, now)],
              LAMBDA conn : conn.name # Unknown)

\* newConnections.filter(conn => !existingNames.has(conn.name.toLowerCase()))
uniqueConnectionsOf(newConns, held) ==
    LET existingNames == {toLowerCase(held[k].name) : k \in 1..Len(held)}
    IN  SelectSeq(newConns, LAMBDA conn : toLowerCase(conn.name) \notin existingNames)

\* ---- specification of handleFileSelect -----------------------------------

\* the most rows of a file
MaxCsvRows == 2

\* the rows parseCSV gives: every field a trimmed string, '' when empty
CsvRows ==
    [FirstName : {<<>>, <<"A","n","n">>},
     LastName : {<<>>, <<"L","e","e">>},
     Company : {<<>>, <<"C","i","t","y"," ","B","a","n","k">>},
     Position : {<<>>, <<"U","X"," ","L","e","a","d">>},
     EmailAddress : {<<>>},
     ConnectedOn : {<<>>, Jan15, NotADate}]
    \cup {[FirstName |-> Unknown, LastName |-> <<>>, Company |-> <<>>,
           Position |-> <<"L","a","w","y","e","r">>,
           EmailAddress |-> <<"u","@","x">>, ConnectedOn |-> Jan15]}

CsvFiles == UNION {[1..n -> CsvRows] : n \in 0..MaxCsvRows}

\* the connections of the context the handler was rendered with
HeldLists ==
    {<<>>,
     <<linkedInRowToConnection(
          [FirstName |-> <<"a","n","n">>, LastName |-> <<"L","E","E">>,
           Company |-> <<>>, Position |-> <<>>, EmailAddress |-> <<>>,
           ConnectedOn |-> <<>>], 0, Epoch - DAY)>>}

ImportNows == {Epoch, Epoch + 1}

NoImportResult == [isNull |-> TRUE, success |-> 0, skipped |-> 0]

ImportIdle ==
    /\ importing = FALSE
    /\ importRows = <<>>
    /\ importHeld = <<>>
    /\ importNow = 0
    /\ newConnections = <<>>
    /\ importAdded = <<>>
    /\ importResult = NoImportResult

\* handleFileSelect up to await file.text()
ImportSelect ==
    /\ ~importing
    /\ importing' = TRUE
    /\ importResult' = NoImportResult
    /\ \E held \in HeldLists : importHeld' = held
    /\ importRows' = <<>>
    /\ importNow' = 0
    /\ newConnections' = <<>>
    /\ importAdded' = <<>>
    /\ UNCHANGED notImport

\* file.text() resolved: parseCSV, the conversion, addConnections, setResult
ImportRead ==
    /\ importing
    /\ \E rows \in CsvFiles, now \in ImportNows :
          LET converted == newConnectionsOf(rows, now)
              uniqueConnections == uniqueConnectionsOf(converted, importHeld)
          IN  /\ importRows' = rows
              /\ importNow' = now
              /\ newConnections' = converted
              /\ importAdded' = uniqueConnections
              /\ importResult' = [isNull |-> FALSE,
                                  success |-> Len(uniqueConnections),
                                  skipped |-> Len(converted) - Len(uniqueConnections)]
    /\ importing' = FALSE
    /\ UNCHANGED <<importHeld, notImport>>

\* file.text() rejected: the catch block
ImportFail ==
    /\ importing
    /\ importResult' = [isNull |-> FALSE, success |-> 0, skipped |-> 0]
    /\ importing' = FALSE
    /\ UNCHANGED <<importRows, importHeld, importNow, newConnections, importAdded,
                   notImport>>

ImportNext == ImportSelect \/ ImportRead \/ ImportFail

\* ------------------------------------------------------------------------
\* getEmailHeatStatus, getEmailHeatScore (utils/emailHeatMap.ts)
\* ------------------------------------------------------------------------

\* Math.floor(x / (1000 * 60 * 60 * 24)) of a number of seconds
FloorDays(x) == IF x.nan THEN NaN ELSE Num(x.n \div DAY)

\* DEFAULT_CONFIG
criticalDays == 7
urgentDays == 3

\* a >= n for a JavaScript number: false for NaN
AtLeast(a, n) == ~a.nan /\ a.n >= n

\* now.getDay(): 0 is Sunday; 1 January 1970 was a Thursday
getDay(now) == ((now \div DAY) + 4) % 7

\* the dates the model writes into deadlines, and what new Date(text) gives
DeadlineDates ==
    <<[text |-> <<"1","9","7","1","-","0","5","-","1","5">>, at |-> Epoch - DAY],
      [text |-> <<"1","9","7","1","-","0","5","-","1","7">>, at |-> Epoch + DAY],
      [text |-> <<"1","9","7","1","-","0","5","-","2","2">>, at |-> Epoch + 6 * DAY],
      [text |-> <<"1","9","7","1","-","0","6","-","1","5">>, at |-> Epoch + 30 * DAY]>>

\* the first date pattern matching in deadlineStr: [found, date]
MatchDate(deadlineStr) ==
    LET hits == {k \in 1..Len(DeadlineDates) : includes(deadlineStr, DeadlineDates[k].text)}
    IN  IF hits = {} THEN [found |-> FALSE, at |-> 0]
        ELSE [found |-> TRUE,
              at |-> DeadlineDates[CHOOSE k \in hits : \A j \in hits : k <= j].at]

\* getDeadlineHeat(deadlineStr): "null" when no rule applies
getDeadlineHeat(deadlineStr, now) ==
    LET lowerDeadline == toLowerCase(deadlineStr)
        has(word) == includes(lowerDeadline, word)
        found == MatchDate(deadlineStr)
        daysUntil == (found.at - now) \div DAY
        friday == (5 - getDay(now) + 7) % 7
        daysUntilFriday == IF friday = 0 THEN 7 ELSE friday
    IN  IF has(<<"t","o","d","a","y">>) \/ has(<<"a","s","a","p">>) \/ has(<<"i","m","m","e","d","i","a","t","e","l","y">>) THEN "critical"
        ELSE IF has(<<"t","o","m","o","r","r","o","w">>) THEN "critical"
        ELSE IF has(<<"t","h","i","s"," ","w","e","e","k">>) \/ has(<<"e","n","d"," ","o","f"," ","w","e","e","k">>) \/ has(<<"e","o","w">>)
             THEN IF daysUntilFriday <= 2 THEN "critical" ELSE "urgent"
        ELSE IF has(<<"n","e","x","t"," ","w","e","e","k">>) THEN "normal"
        ELSE IF found.found
             THEN IF daysUntil <= 2 THEN "critical"
                  ELSE IF daysUntil <= 7 THEN "urgent"
                  ELSE "normal"
        ELSE "null"

\* mutant: the priority of the analysis is not looked at
getEmailHeatStatus_noPriority(email, now) ==
    LET daysSinceEmail == FloorDays(TimeDiff(now, email.date))
        deadlineHeat == IF email.analysis.deadline # <<>>
                        THEN getDeadlineHeat(email.analysis.deadline, now)
                        ELSE "null"
    IN  IF deadlineHeat # "null" THEN deadlineHeat
        ELSE IF AtLeast(daysSinceEmail, criticalDays) THEN "critical"
        ELSE IF AtLeast(daysSinceEmail, urgentDays) THEN "urgent"
        ELSE IF AtLeast(daysSinceEmail, 1) THEN "normal"
        ELSE "low"

\* getEmailHeatStatus(email)
getEmailHeatStatus(email, now) ==
    LET daysSinceEmail == FloorDays(TimeDiff(now, email.date))
        deadlineHeat == IF email.analysis.deadline # <<>>
                        THEN getDeadlineHeat(email.analysis.deadline, now)
                        ELSE "null"
    IN  IF deadlineHeat # "null" THEN deadlineHeat
        ELSE IF email.analysis.priority = "HIGH"
             THEN IF AtLeast(daysSinceEmail, urgentDays) THEN "critical" ELSE "urgent"
        ELSE IF AtLeast(daysSinceEmail, criticalDays) THEN "critical"
        ELSE IF AtLeast(daysSinceEmail, urgentDays) THEN "urgent"
        ELSE IF AtLeast(daysSinceEmail, 1) THEN "normal"
        ELSE "low"

\* a + b of two JavaScript numbers
Plus(a, b) == IF a.nan \/ b.nan THEN NaN ELSE Num(a.n + b.n)

\* Math.min(a, b): NaN when either is
MathMin(a, b) == IF a.nan \/ b.nan THEN NaN ELSE Num(Min(a.n, b.n))

\* { critical: 90, urgent: 70, normal: 40, low: 20 }[heatStatus]
baseScore(heatStatus) ==
    CASE heatStatus = "critical" -> Num(90)
      [] heatStatus = "urgent" -> Num(70)
      [] heatStatus = "normal" -> Num(40)
      [] heatStatus = "low" -> Num(20)
      [] OTHER -> NaN

\* { HIGH: 10, MEDIUM: 5, LOW: 0 }[priority]: undefined for another value
priorityFactor(priority) ==
    CASE priority = "HIGH" -> Num(10)
      [] priority = "MEDIUM" -> Num(5)
      [] priority = "LOW" -> Num(0)
      [] OTHER -> NaN

actionFactor(action) ==
    IF action = "RESPONSE_NEEDED" THEN Num(5)
    ELSE IF action = "DEADLINE" THEN Num(8) ELSE Num(0)

\* getEmailHeatScore(email)
getEmailHeatScore(email, now) ==
    LET daysSince == FloorDays(TimeDiff(now, email.date))
        ageFactor == MathMin(daysSince, Num(10))
    IN  MathMin(Num(100),
                Plus(Plus(Plus(baseScore(getEmailHeatStatus(email, now)), ageFactor),
                          priorityFactor(email.analysis.priority)),
                     actionFactor(email.analysis.action)))

\* ---- specification of the calls of the email heat map --------------------

\* the clock is read at a Sunday midnight or at a Wednesday noon
ScoreNows == {Epoch, Epoch + 3 * DAY + DAY \div 2}

\* how long before (after, if negative) the clock reading the email is dated
ScoreAges ==
    {0, 1, DAY - 1, DAY, 3 * DAY - 1, 3 * DAY, 7 * DAY - 1, 7 * DAY, 10 * DAY, 11 * DAY, 400 * DAY,
     -1, -DAY, -20 * DAY, -20 * DAY - 1, -30 * DAY}

\* analysis.deadline: none ('' or null), keywords, dates, a text without any
ScoreDeadlines ==
    {<<>>, <<"A","S","A","P">>, <<"b","y"," ","T","o","m","o","r","r","o","w">>, <<"E","O","W">>, <<"N","e","x","t"," ","w","e","e","k">>, <<"s","o","o","n">>, <<"d","u","e"," ","1","9","7","1","-","0","5","-","1","5">>, <<"1","9","7","1","-","0","5","-","1","7">>, <<"1","9","7","1","-","0","5","-","2","2">>, <<"1","9","7","1","-","0","6","-","1","5">>}

ScoreEmail(date, priority, action, deadline) ==
    [id |-> "e1", date |-> date,
     analysis |-> [priority |-> priority, action |-> action, deadline |-> deadline]]

NoScoreEmail == ScoreEmail(DateOf(0), "none", "none", <<>>)

ScoreIdle ==
    /\ sNow = 0
    /\ sEmail = NoScoreEmail
    /\ sStatus = "none"
    /\ sScore = Num(0)

\* the heat map computes the status and the score of an email
ScoreCall ==
    /\ sStatus = "none"
    /\ \E now \in ScoreNows, age \in ScoreAges, invalid \in BOOLEAN,
          priority \in Priorities \cup {"URGENT"}, action \in ActionTypes,
          deadline \in ScoreDeadlines :
          LET email == ScoreEmail(IF invalid THEN InvalidDate ELSE DateOf(now - age),
                                  priority, action, deadline)
          IN  /\ invalid => age = 0
              /\ sNow' = now
              /\ sEmail' = email
              /\ sStatus' = getEmailHeatStatus(email, now)
              /\ sScore' = getEmailHeatScore(email, now)
    /\ UNCHANGED notScore

\* the values have been used; the next email is looked at
ScoreReturn ==
    /\ sStatus # "none"
    /\ sNow' = 0
    /\ sEmail' = NoScoreEmail
    /\ sStatus' = "none"
    /\ sScore' = Num(0)
    /\ UNCHANGED notScore

ScoreNext == ScoreCall \/ ScoreReturn

\* ------------------------------------------------------------------------
\* db/snowflake.js and scripts/readSnowflakeTable.js
\* ------------------------------------------------------------------------

\* the module and its caller / the script and its process
moduleVars == <<connection, sdkCalls, snCall, snLast>>
mainVars == <<mainPc, tableName, envMissing, exitCode, disconnects>>

\* the longest log of SDK calls the caller of the module is followed for
MaxSdkCalls == 8

\* the messages of the errors the module throws
NotConnected == "Not connected to Snowflake. Call connect() first."
ConnectFailed == "Failed to connect to Snowflake: "
QueryFailed == "Query failed: "

\* a call of one of the three exported functions and how its promise settled
Call(op, settled, outcome) == [op |-> op, settled |-> settled, outcome |-> outcome]
NoCall == Call("none", FALSE, "none")

\* connect(): createConnection either throws inside the promise executor
\* (connection keeps its value, the promise is rejected) or returns the new
\* connection object, which is assigned before connection.connect is called
connect(throws) ==
    IF throws
    THEN /\ connection' = connection
         /\ sdkCalls' = Append(sdkCalls, "createConnection")
         /\ snCall' = Call("connect", TRUE, ConnectFailed)
         /\ snLast' = "connectFailed"
    ELSE /\ connection' = "pristine"
         /\ sdkCalls' = sdkCalls \o <<"createConnection", "connect">>
         /\ snCall' = Call("connect", FALSE, "none")
         /\ snLast' = snLast

\* executeQuery(sqlText): throws if (!connection), else connection.execute
executeQuery ==
    IF connection = "null"
    THEN /\ snCall' = Call("executeQuery", TRUE, NotConnected)
         /\ UNCHANGED <<connection, sdkCalls, snLast>>
    ELSE /\ sdkCalls' = Append(sdkCalls, "execute")
         /\ snCall' = Call("executeQuery", FALSE, "none")
         /\ UNCHANGED <<connection, snLast>>

\* disconnect(): returns if (!connection), else connection.destroy
disconnect ==
    IF connection = "null"
    THEN /\ snCall' = Call("disconnect", TRUE, "resolved")
         /\ UNCHANGED <<connection, sdkCalls, snLast>>
    ELSE /\ sdkCalls' = Append(sdkCalls, "destroy")
         /\ snCall' = Call("disconnect", FALSE, "none")
         /\ UNCHANGED <<connection, snLast>>

\* the callback given to connection.connect
ConnectCallback ==
    /\ snCall = Call("connect", FALSE, "none")
    /\ \E err \in BOOLEAN :
          IF err
          THEN /\ snCall' = Call("connect", TRUE, ConnectFailed)
               /\ snLast' = "connectFailed"
               /\ connection' = connection
          ELSE /\ snCall' = Call("connect", TRUE, "resolved")
               /\ snLast' = "connected"
               /\ connection' = "up"
    /\ UNCHANGED <<sdkCalls, mainVars, notSnow>>

\* the complete callback given to connection.execute; a connection that is
\* not up has no session to run the statement in
ExecuteComplete ==
    /\ snCall = Call("executeQuery", FALSE, "none")
    /\ \E err \in BOOLEAN :
          /\ connection # "up" => err
          /\ snCall' = Call("executeQuery", TRUE, IF err THEN QueryFailed ELSE "resolved")
    /\ UNCHANGED <<connection, sdkCalls, snLast, mainVars, notSnow>>

\* the callback given to connection.destroy: an error is only logged
DestroyCallback ==
    /\ snCall = Call("disconnect", FALSE, "none")
    /\ connection' = "null"
    /\ snCall' = Call("disconnect", TRUE, "resolved")
    /\ snLast' = "disconnected"
    /\ UNCHANGED <<sdkCalls, mainVars, notSnow>>

\* ---- a caller that awaits each call of the module ------------------------

SnowIdle ==
    /\ connection = "null"
    /\ sdkCalls = <<>>
    /\ snCall = NoCall
    /\ snLast = "never"
    /\ mainPc = "idle"
    /\ tableName = FALSE
    /\ envMissing = {}
    /\ exitCode = -1
    /\ disconnects = 0

CanCall == snCall = NoCall /\ Len(sdkCalls) + 2 <= MaxSdkCalls

SnowConnect ==
    /\ CanCall
    /\ \E throws \in BOOLEAN : connect(throws)
    /\ UNCHANGED <<mainVars, notSnow>>

SnowExecuteQuery ==
    /\ CanCall
    /\ executeQuery
    /\ UNCHANGED <<mainVars, notSnow>>

SnowDisconnect ==
    /\ CanCall
    /\ disconnect
    /\ UNCHANGED <<mainVars, notSnow>>

\* the caller has seen how the call settled
SnowReturn ==
    /\ snCall.settled
    /\ snCall' = NoCall
    /\ UNCHANGED <<connection, sdkCalls, snLast, mainVars, notSnow>>

SnowNext ==
    \/ SnowConnect
    \/ SnowExecuteQuery
    \/ SnowDisconnect
    \/ ConnectCallback
    \/ ExecuteComplete
    \/ DestroyCallback
    \/ SnowReturn

\* ---- scripts/readSnowflakeTable.js: main ----------------------------------

requiredEnvVars ==
    {"SNOWFLAKE_ACCOUNT", "SNOWFLAKE_USERNAME", "SNOWFLAKE_PASSWORD",
     "SNOWFLAKE_WAREHOUSE", "SNOWFLAKE_DATABASE", "SNOWFLAKE_SCHEMA"}

\* process.exit(code): the process ends there, nothing after it runs
processExit(code) ==
    /\ mainPc' = "exited"
    /\ exitCode' = code

\* node scripts/readSnowflakeTable.js [TABLE_NAME], in some environment
MainStart ==
    /\ mainPc = "idle"
    /\ \E given \in BOOLEAN, missing \in SUBSET requiredEnvVars :
          /\ tableName' = given
          /\ envMissing' = missing
    /\ mainPc' = "checks"
    /\ UNCHANGED <<moduleVars, exitCode, disconnects, notSnow>>

\* main up to await connect()
MainChecks ==
    /\ mainPc = "checks"
    /\ IF ~tableName \/ envMissing # {}
       THEN /\ processExit(1)
            /\ UNCHANGED moduleVars
       ELSE /\ \E throws \in BOOLEAN : connect(throws)
            /\ mainPc' = "connect"
            /\ exitCode' = exitCode
    /\ UNCHANGED <<tableName, envMissing, disconnects, notSnow>>

\* await connect() settled: executeQuery(sql), or the catch block
MainConnected ==
    /\ mainPc = "connect"
    /\ snCall.settled
    /\ IF snCall.outcome = "resolved"
       THEN /\ executeQuery
            /\ mainPc' = "query"
            /\ exitCode' = exitCode
       ELSE /\ processExit(1)
            /\ UNCHANGED moduleVars
    /\ UNCHANGED <<tableName, envMissing, disconnects, notSnow>>

\* await executeQuery(sql) settled: the rows are printed and the finally
\* block calls disconnect(), or the catch block
MainQueried ==
    /\ mainPc = "query"
    /\ snCall.settled
    /\ IF snCall.outcome = "resolved"
       THEN /\ disconnect
            /\ disconnects' = disconnects + 1
            /\ mainPc' = "disconnect"
            /\ exitCode' = exitCode
       ELSE /\ processExit(1)
            /\ UNCHANGED <<moduleVars, disconnects>>
    /\ UNCHANGED <<tableName, envMissing, notSnow>>

\* await disconnect() settled: main returns and the process ends
MainClosed ==
    /\ mainPc = "disconnect"
    /\ snCall.settled
    /\ mainPc' = "exited"
    /\ exitCode' = 0
    /\ UNCHANGED <<moduleVars, tableName, envMissing, disconnects, notSnow>>

ScriptNext ==
    \/ MainStart
    \/ MainChecks
    \/ MainConnected
    \/ MainQueried
    \/ MainClosed
    \/ ConnectCallback
    \/ ExecuteComplete
    \/ DestroyCallback

\* ------------------------------------------------------------------------
\* calls of GeminiService.sortByPriority (route.ts: sortByPriority(analyzedEmails))
\* ------------------------------------------------------------------------

\* the longest array the sort is followed for
MaxSortLen == 3

\* the priorities of the analyses handed to the sort: those of the type, and
\* one that only an unvalidated answer of the API can carry
SortPriorities == Priorities \cup {"URGENT"}

SortDates == {DateOf(Epoch - DAY), DateOf(Epoch)}

SortEmail(id, date, priority) ==
    [id |-> id, date |-> date, analysis |-> [priority |-> priority]]

\* the arrays of analyzed emails, ids in the order of the array
SortArrays ==
    UNION {{[k \in 1..n |-> SortEmail(EmailIds[k], d[k], p[k])] :
              d \in [1..n -> SortDates], p \in [1..n -> SortPriorities]} :
           n \in 0..MaxSortLen}

SortIdle ==
    /\ sortPc = "idle"
    /\ sortArg = <<>>
    /\ sortEmails = <<>>
    /\ sortReturned = <<>>

\* const sortedEmails = gemini.sortByPriority(analyzedEmails): the sort works
\* on the copy [...emails], the array of the caller keeps its order
SortCall ==
    /\ sortPc = "idle"
    /\ \E emails \in SortArrays :
          /\ sortArg' = emails
          /\ sortEmails' = emails
          /\ \E result \in sortByPriority(emails) : sortReturned' = result
    /\ sortPc' = "done"
    /\ UNCHANGED notSort

\* the sorted array has been used; the next call
SortReturn ==
    /\ sortPc = "done"
    /\ sortPc' = "idle"
    /\ sortArg' = <<>>
    /\ sortEmails' = <<>>
    /\ sortReturned' = <<>>
    /\ UNCHANGED notSort

SortNext == SortCall \/ SortReturn

\* ------------------------------------------------------------------------
\* ConnectionsProvider of context/ConnectionsContext.tsx with the Snowflake
\* API switched on (NEXT_PUBLIC_USE_SNOWFLAKE === 'true'), and the table
\* behind /api/connections
\* ------------------------------------------------------------------------

\* the longest list and the largest table that are followed
MaxProvConns == 3

\* the connections addConnections is called with, one at a time
ProvPool == {Ann, Bob, Cy, Di}

\* a request to /api/connections and where it is: "none" | "sent" (on its way
\* to the server) | "answered" (the response is on its way back)
ProvRequest(stage, ok, list) ==
    [stage |-> stage, ok |-> ok, connections |-> list]
NoProvRequest == ProvRequest("none", FALSE, <<>>)

ProvIdle ==
    /\ provMounted = FALSE
    /\ provConnections = <<>>
    /\ provLoading = FALSE
    /\ provGet = NoProvRequest
    /\ provPost = NoProvRequest
    /\ provTable = <<>>
    /\ provAdded = {}

\* the page is loaded (again): useState(USE_SNOWFLAKE_API ? [] : ...), and the
\* mount effect calls fetchConnections() up to await fetch('/api/connections');
\* the response to a request of the page before is not waited for any more
ProvMount ==
    /\ provMounted' = TRUE
    /\ provConnections' = <<>>
    /\ provLoading' = TRUE
    /\ provGet' = ProvRequest("sent", FALSE, <<>>)
    /\ provAdded' = {}
    /\ UNCHANGED <<provPost, provTable, notProv>>

\* GET /api/connections is handled: the rows of the table as they are now,
\* or an error status; or the request fails on the way
ProvGetHandled ==
    /\ provGet.stage = "sent"
    /\ \E ok \in BOOLEAN :
          provGet' = ProvRequest("answered", ok,
                        IF ok THEN [k \in 1..Len(provTable) |-> ConnectionToJson(provTable[k])]
                        ELSE <<>>)
    /\ UNCHANGED <<provMounted, provConnections, provLoading, provPost, provTable,
                   provAdded, notProv>>

\* fetchConnections after the await: a non-empty list replaces rawConnections
ProvFetchSettle ==
    /\ provGet.stage = "answered"
    /\ provConnections' =
          IF provGet.ok /\ Len(provGet.connections) > 0
          THEN [k \in 1..Len(provGet.connections) |->
                   ConnectionFromJson(provGet.connections[k])]
          ELSE provConnections
    /\ provLoading' = FALSE
    /\ provGet' = NoProvRequest
    /\ provAdded' = {}
    /\ UNCHANGED <<provMounted, provPost, provTable, notProv>>

\* addConnections(newConnections): setRawConnections(prev => [...prev,
\* ...newConnections]) and the POST is sent
ProvAddConnections ==
    /\ provMounted
    /\ provPost.stage = "none"
    /\ Len(provConnections) < MaxProvConns
    /\ Len(provTable) < MaxProvConns
    /\ \E c \in ProvPool :
          /\ c.id \notin IdsOf(provConnections)
          /\ provConnections' = Append(provConnections, c)
          /\ provPost' = ProvRequest("sent", FALSE, <<ConnectionToJson(c)>>)
          /\ provAdded' = IF provGet.stage # "none" THEN provAdded \cup {c.id}
                          ELSE provAdded
    /\ UNCHANGED <<provMounted, provLoading, provGet, provTable, notProv>>

\* POST /api/connections is handled: the rows are inserted, or the request
\* fails; addConnections only logs a failure
ProvPostHandled ==
    /\ provPost.stage = "sent"
    /\ \E ok \in BOOLEAN :
          provTable' =
             IF ok THEN provTable \o [k \in 1..Len(provPost.connections) |->
                                         ConnectionFromJson(provPost.connections[k])]
             ELSE provTable
    /\ provPost' = NoProvRequest
    /\ UNCHANGED <<provMounted, provConnections, provLoading, provGet, provAdded, notProv>>

\* clearAllConnections()
ProvClearAllConnections ==
    /\ provMounted
    /\ provConnections' = <<>>
    /\ provAdded' = {}
    /\ UNCHANGED <<provMounted, provLoading, provGet, provPost, provTable, notProv>>

ProvNext ==
    \/ ProvMount
    \/ ProvGetHandled
    \/ ProvFetchSettle
    \/ ProvAddConnections
    \/ ProvPostHandled
    \/ ProvClearAllConnections

\* ------------------------------------------------------------------------
\* FileTokenStorage (lib/gmail/auth.ts, file-based version): .tokens.json
\* ------------------------------------------------------------------------

\* the calls of saveTokens / deleteTokens that run at the same time
MaxFsCalls == 2

FsUsers == {"s1", "s2"}
FsCredentials == {"t1", "t2"}

\* a Map<string, Auth.Credentials>: "none" for a key that is not in it
EmptyMap == [u \in FsUsers |-> "none"]

\* a call of saveTokens or deleteTokens: kind "none" | "save" | "delete";
\* pc "read" (awaiting readTokens) | "write" (about to call fs.writeFile) |
\* "writing" (awaiting fs.writeFile)
FsCall(kind, userId, tokens, pc, allTokens) ==
    [kind |-> kind, userId |-> userId, tokens |-> tokens, pc |-> pc,
     allTokens |-> allTokens]
NoFsCall == FsCall("none", "s1", "none", "idle", EmptyMap)

\* readTokens(): the parsed file, or an empty Map when readFile or JSON.parse
\* throws, as it does for a missing file and for one that is being rewritten
readTokens == IF fileWriters > 0 THEN EmptyMap ELSE tokensFile

\* getTokens(userId): tokens.get(userId) || null
getTokens(userId) == readTokens[userId]

FsIdle ==
    /\ tokensFile = EmptyMap
    /\ fileWriters = 0
    /\ fsCalls = [k \in 1..MaxFsCalls |-> NoFsCall]
    /\ fsLast = EmptyMap

FsRunning(userId) ==
    \E k \in 1..MaxFsCalls : fsCalls[k].kind # "none" /\ fsCalls[k].userId = userId

\* saveTokens(userId, tokens) up to await this.readTokens(), for a session
\* that has no call under way
FsSaveTokens ==
    /\ \E k \in 1..MaxFsCalls, userId \in FsUsers, tokens \in FsCredentials :
          /\ fsCalls[k].kind = "none"
          /\ ~FsRunning(userId)
          /\ fsCalls' = [fsCalls EXCEPT ![k] = FsCall("save", userId, tokens, "read", EmptyMap)]
          /\ fsLast' = [fsLast EXCEPT ![userId] = tokens]
    /\ UNCHANGED <<tokensFile, fileWriters, notFs>>

\* deleteTokens(userId) up to await this.readTokens()
FsDeleteTokens ==
    /\ \E k \in 1..MaxFsCalls, userId \in FsUsers :
          /\ fsCalls[k].kind = "none"
          /\ ~FsRunning(userId)
          /\ fsCalls' = [fsCalls EXCEPT ![k] = FsCall("delete", userId, "none", "read", EmptyMap)]
          /\ fsLast' = [fsLast EXCEPT ![userId] = "none"]
    /\ UNCHANGED <<tokensFile, fileWriters, notFs>>

\* readTokens() resolved: allTokens.set(userId, tokens) / tokens.delete(userId)
FsRead ==
    /\ \E k \in 1..MaxFsCalls :
          /\ fsCalls[k].pc = "read"
          /\ fsCalls' = [fsCalls EXCEPT ![k] =
                FsCall(@.kind, @.userId, @.tokens, "write",
                       [readTokens EXCEPT ![fsCalls[k].userId] = fsCalls[k].tokens])]
    /\ UNCHANGED <<tokensFile, fileWriters, fsLast, notFs>>

\* writeTokens: fs.writeFile opens the file, which truncates it
FsWriteFile ==
    /\ \E k \in 1..MaxFsCalls :
          /\ fsCalls[k].pc = "write"
          /\ fsCalls' = [fsCalls EXCEPT ![k].pc = "writing"]
    /\ fileWriters' = fileWriters + 1
    /\ UNCHANGED <<tokensFile, fsLast, notFs>>

\* fs.writeFile resolved: the file holds the entries of the call's map, and
\* the call returns
FsWritten ==
    /\ \E k \in 1..MaxFsCalls :
          /\ fsCalls[k].pc = "writing"
          /\ tokensFile' = fsCalls[k].allTokens
          /\ fsCalls' = [fsCalls EXCEPT ![k] = NoFsCall]
    /\ fileWriters' = fileWriters - 1
    /\ UNCHANGED <<fsLast, notFs>>

FsNext ==
    \/ FsSaveTokens
    \/ FsDeleteTokens
    \/ FsRead
    \/ FsWriteFile
    \/ FsWritten

\* ------------------------------------------------------------------------
\* Specifications
\* ------------------------------------------------------------------------

Idle ==
    /\ HeatIdle /\ MockIdle /\ AnalyzeIdle /\ GeminiIdle
    /\ ConnIdle /\ DashIdle /\ PostIdle /\ ListIdle
    /\ ImportIdle /\ ScoreIdle /\ SnowIdle /\ SortIdle
    /\ ProvIdle /\ FsIdle

SpecHeat == Idle /\ [][HeatNext]_vars

SpecMock == Idle /\ [][MockNext]_vars

SpecAnalyze == Idle /\ [][AnalyzeNext]_vars

SpecGemini == Idle /\ [][GeminiNext]_vars

SpecCache == Idle /\ [][CacheNext]_vars

SpecConn == Idle /\ [][ConnNext]_vars

SpecDash == Idle /\ [][DashNext]_vars

SpecPost == Idle /\ [][PostNext]_vars

SpecList == Idle /\ [][ListNext]_vars

SpecImport == Idle /\ [][ImportNext]_vars

SpecScore == Idle /\ [][ScoreNext]_vars

SpecSnow == Idle /\ [][SnowNext]_vars

SpecScript == Idle /\ [][ScriptNext]_vars

SpecSort == Idle /\ [][SortNext]_vars

SpecProvider == Idle /\ [][ProvNext]_vars

SpecFile == Idle /\ [][FsNext]_vars

\* ------------------------------------------------------------------------
\* C2: getHeatStatus returns hot when the elapsed time is at most 14 days
\* (14 days exactly included), warm when it is more than 14 and at most 90
\* days (90 days exactly included) and cold otherwise; the result is one of
\* the three values and is determined by the elapsed time alone.
\* ------------------------------------------------------------------------
C2_Elapsed == TimeDiff(hNow, hDate)

C2_HeatBoundaries ==
    hStatus # "none" =>
        /\ hStatus \in {"hot", "warm", "cold"}
        /\ hStatus = "hot"  <=> (~C2_Elapsed.nan /\ C2_Elapsed.n <= 14 * DAY)
        /\ hStatus = "warm" <=> (~C2_Elapsed.nan /\ C2_Elapsed.n > 14 * DAY
                                                  /\ C2_Elapsed.n <= 90 * DAY)
        /\ hStatus = "cold" <=> (C2_Elapsed.nan \/ C2_Elapsed.n > 90 * DAY)

\* a contact exactly 14 days old has been classified, at a clock reading other than the first
C2_Witness ==
    /\ hNow # Epoch
    /\ ~hDate.nan
    /\ hNow - hDate.n = 14 * DAY
    /\ hStatus = "hot"

\* ------------------------------------------------------------------------
\* C5 (as stated): the fallback returns HIGH / RESPONSE_NEEDED / ASAP exactly
\* when the email is starred or its subject contains, in any letter case,
\* urgent, asap, important, deadline or action required; otherwise the first
\* matching rule among meeting, question and newsletter applies, and
\* MEDIUM / FYI / When convenient when none does; afterwards a non-HIGH
\* priority becomes LOW when the email is more than 7 days old, and a HIGH
\* priority is never lowered.
\* ------------------------------------------------------------------------
C5_Subject == toLowerCase(mEmail.subject)
C5_HighSignal ==
    \/ mEmail.isStarred
    \/ \E k \in {Keywords.urgent, Keywords.asap, Keywords.important, Keywords.deadline, Keywords.action_required} :
          includes(C5_Subject, k)
C5_Meeting == \E k \in {Keywords.meeting, Keywords.invite, Keywords.calendar} : includes(C5_Subject, k)
C5_Question ==
    \/ \E k \in {Keywords.question, Keywords.help} : includes(C5_Subject, k)
    \/ includes(mEmail.snippet, <<"?">>)
C5_Newsletter == \E k \in {Keywords.newsletter, Keywords.update, Keywords.digest} : includes(C5_Subject, k)

\* what the rules give before the age rule
C5_Base ==
    CASE C5_HighSignal -> <<"HIGH", "RESPONSE_NEEDED", "ASAP">>
      [] ~C5_HighSignal /\ C5_Meeting -> <<"MEDIUM", "DEADLINE", "This week">>
      [] ~C5_HighSignal /\ ~C5_Meeting /\ C5_Question ->
            <<"MEDIUM", "RESPONSE_NEEDED", "This week">>
      [] ~C5_HighSignal /\ ~C5_Meeting /\ ~C5_Question /\ C5_Newsletter ->
            <<"LOW", "FYI", "No response needed">>
      [] OTHER -> <<"MEDIUM", "FYI", "When convenient">>

C5_Age == TimeDiff(mNow, mEmail.date)

\* the claim's rules with the age rule given by Old
C5_Rules(Old) ==
    mResult # NoAnalysis =>
        /\ (<<mResult.priority, mResult.action, mResult.suggestedResponseTime>>
                = <<"HIGH", "RESPONSE_NEEDED", "ASAP">>) <=> C5_HighSignal
        /\ mResult.action = C5_Base[2]
        /\ mResult.suggestedResponseTime = C5_Base[3]
        /\ mResult.priority =
              IF C5_Base[1] # "HIGH" /\ Old THEN "LOW" ELSE C5_Base[1]

\* the original statement: old means that more than 7 days have elapsed
C5_AsStated == C5_Rules(~C5_Age.nan /\ C5_Age.n > 7 * DAY)

\* C5 (amended): as above, but a non-HIGH priority becomes LOW when the age of
\* the email in whole days, rounded down, exceeds 7, that is from 8 days on.
C5_MockRules == C5_Rules(~C5_Age.nan /\ C5_Age.n >= 8 * DAY)

\* an email 8 days old that matches the meeting rule has been lowered to LOW,
\* and its action is still DEADLINE
C5_Witness ==
    /\ mResult # NoAnalysis
    /\ ~C5_HighSignal /\ C5_Meeting
    /\ ~mEmail.date.nan /\ mNow - mEmail.date.n = 8 * DAY
    /\ mResult.priority = "LOW" /\ mResult.action = "DEADLINE"

\* ------------------------------------------------------------------------
\* C3: analyzeEmail always resolves and never rejects, and its result has the
\* id of the email; when the API call fails (HTTP 429 included), when no JSON
\* can be extracted from the response text, or when the extracted text is not
\* valid JSON, the result is the keyword analysis of that email.
\* ------------------------------------------------------------------------
C3_ApiFailed == aOutcome.kind = "error"

\* the text has neither a json fence nor a {...} stretch
C3_NoJsonExtractable ==
    /\ aOutcome.kind = "text"
    /\ ~aOutcome.fence
    /\ \/ aOutcome.json \in {"prose", "empty", "null", "number"}
       \/ aOutcome.json = "array" /\ aOutcome.items = <<>>

\* something was extracted and JSON.parse rejects it
C3_InvalidJson ==
    /\ aOutcome.kind = "text"
    /\ \/ aOutcome.fence /\ aOutcome.json \in {"prose", "empty", "braces"}
       \/ ~aOutcome.fence /\ aOutcome.json = "braces"

C3_AlwaysResolves ==
    aPc = "settled" =>
        /\ ~aResult.rejected
        /\ aResult.value.id = aEmail.id
        /\ (C3_ApiFailed \/ C3_NoJsonExtractable \/ C3_InvalidJson) =>
              aResult.value = generateSmartMockAnalysis(aEmail, Epoch)

\* a rate-limited call has settled with the keyword analysis of a starred email
C3_Witness ==
    /\ aPc = "settled"
    /\ aOutcome.kind = "error" /\ aOutcome.status = 429
    /\ aEmail.isStarred
    /\ aResult.value.priority = "HIGH"
    /\ aResult.value.reasoning = MockReasoning

\* ------------------------------------------------------------------------
\* C4: every email returned by analyzeAndEnrich carries an analysis whose
\* priority is HIGH, MEDIUM or LOW and whose action is RESPONSE_NEEDED,
\* FOLLOW_UP, WAITING, FYI or DEADLINE, whatever the API returned.
\* Violated: the parsed answer is cast to EmailAnalysis and never validated.
\* ------------------------------------------------------------------------
C4_AnalysisInEnums ==
    gPc = "done" =>
        \A k \in 1..Len(gEnriched) :
            /\ gEnriched[k].analysis.priority \in Priorities
            /\ gEnriched[k].analysis.action \in ActionTypes

\* ------------------------------------------------------------------------
\* C6: the sequential batchAnalyze has at most one request in flight and
\* starts the request of email i+1 only after that of email i completed and
\* the delay elapsed; the fallback analysis has at most 3 in flight and starts
\* a group only after every request of the previous group completed; both
\* return one analysis per email in input order.
\* ------------------------------------------------------------------------
C6_Bound == IF gVersion = "sequential" THEN 1 ELSE concurrency

C6_Inv ==
    /\ Cardinality(gInFlight) <= C6_Bound
    /\ gPc = "sequentialAwait" => gInFlight = {gI} /\ Len(gAnalyses) = gI - 1
    /\ gPc = "fallbackAwait" =>
          /\ gInFlight \subseteq gI..GroupEnd(gI, Len(gEmails))
          /\ Len(gAnalyses) = gI - 1
    /\ gPc = "done" =>
          /\ Len(gAnalyses) = Len(gEmails)
          /\ \A k \in 1..Len(gEmails) : gAnalyses[k].id = gEmails[k].id

\* a step that starts requests: none of the earlier ones is still pending,
\* and after the first request of a call it is the timer that starts them
C6_Step ==
    (gInFlight' \ gInFlight # {}) =>
        /\ gInFlight' \cap gInFlight = {}
        /\ gPc \in {"idle", "batchAwait", "sequentialDelay", "fallbackDelay"}
        /\ gPc \in {"sequentialDelay", "fallbackDelay"} => gInFlight = {}
        /\ \A k \in gInFlight' : k > 0 => Len(gAnalyses') < k

C6_BoundedInFlight == [](C6_Inv) /\ [][C6_Step]_vars

\* the three requests of the first fallback group of a longer list are
\* pending at once
C6_Witness ==
    /\ gVersion = "batch"
    /\ gPc = "fallbackAwait"
    /\ Cardinality(gInFlight) = concurrency
    /\ Len(gEmails) > concurrency

\* ------------------------------------------------------------------------
\* C1: after any sequence of add, delete, clear, refresh and filter
\* operations, every degree-2 connection in filteredConnections has a
\* connectedThrough equal to the id of a degree-1 connection that is also in
\* filteredConnections, and every degree-3 connection one equal to the id of
\* a degree-2 connection that is also in filteredConnections.
\* ------------------------------------------------------------------------
C1_ParentVisible(v, degree) ==
    \E p \in Elems(FilteredConnections) : p.degree = degree /\ p.id = v.connectedThrough

C1_Cascade ==
    mounted =>
        \A v \in Elems(FilteredConnections) :
            /\ v.degree = 2 => C1_ParentVisible(v, 1)
            /\ v.degree = 3 => C1_ParentVisible(v, 2)

\* with all degrees shown and some filter set, one child is visible and another
\* connection that itself passes the filters is hidden for want of its parent
C1_Witness ==
    /\ mounted
    /\ filters # NoFilters
    /\ filters.maxDegree = NullDegree
    /\ \E v \in Elems(FilteredConnections) : v.degree \in {2, 3}
    /\ \E h \in Elems(Connections) :
          /\ h.degree \in {2, 3}
          /\ matchesBasicFilters(h, filters)
          /\ h \notin Elems(FilteredConnections)

\* ------------------------------------------------------------------------
\* C7: getCachedConnections never returns connections from a cache entry
\* written more than 15 minutes earlier: such an entry yields null and is
\* removed from local storage; an entry at most 15 minutes old is returned
\* with the same connections that were stored.
\* ------------------------------------------------------------------------
C7_Age == clock - localStorage.timestamp

C7_Step ==
    (cached'.called /\ localStorage.present) =>
        IF C7_Age > CACHE_DURATION
        THEN /\ cached'.isNull
             /\ cached'.connections = <<>>
             /\ localStorage' = NoItem
        ELSE /\ ~cached'.isNull
             /\ localStorage' = localStorage
             /\ \A list \in CacheLists :
                   localStorage = setCachedConnections(list, localStorage.timestamp)
                       => cached'.connections = list

C7_CacheExpiry == [][C7_Step]_vars

\* an entry exactly 15 minutes old has been returned
C7_Witness ==
    /\ cached.called
    /\ ~cached.isNull
    /\ Len(cached.connections) > 0
    /\ localStorage.present
    /\ C7_Age = CACHE_DURATION

\* ------------------------------------------------------------------------
\* C10 as stated: deleteConnection(id) removes exactly the connections with
\* that id and clears the selection; the connections whose connectedThrough
\* is the deleted id stay in the list, but none of them nor any of their own
\* children appears in filteredConnections afterwards.
\* Violated: a degree-1 connection is shown whatever its connectedThrough.
\* ------------------------------------------------------------------------
C10_Removed ==
    /\ \A c \in Elems(rawConnections) : c.id # lastDeleted
    /\ selectedConnection = NullNode

C10_AsStated ==
    lastDeleted # NoId =>
        /\ C10_Removed
        /\ \A v \in Elems(FilteredConnections) :
              /\ v.connectedThrough # lastDeleted
              /\ ~\E c \in Elems(Connections) :
                    c.connectedThrough = lastDeleted /\ v.connectedThrough = c.id

\* ------------------------------------------------------------------------
\* C10, amended: deleteConnection(id) removes exactly the connections with
\* that id and clears the selection; the connections whose connectedThrough
\* is the deleted id stay in the list and in the stats totals; afterwards no
\* degree-2 or degree-3 connection whose connectedThrough is the deleted id
\* is in filteredConnections, and a degree-3 connection is there only through
\* a visible degree-2 connection that does not itself hang on the deleted id.
\* ------------------------------------------------------------------------
C10_Inv ==
    lastDeleted # NoId =>
        /\ C10_Removed
        /\ \A v \in Elems(FilteredConnections) :
              /\ v.degree \in {2, 3} => v.connectedThrough # lastDeleted
              /\ v.degree = 3 =>
                    \E p \in Elems(FilteredConnections) :
                        /\ p.degree = 2
                        /\ p.id = v.connectedThrough
                        /\ p.connectedThrough # lastDeleted

C10_Step ==
    lastDeleted' # NoId =>
        /\ rawConnections' = SelectSeq(rawConnections, LAMBDA c : c.id # lastDeleted')
        /\ \A c \in Elems(rawConnections) :
              (c.connectedThrough = lastDeleted' /\ c.id # lastDeleted')
                  => c \in Elems(rawConnections')
        /\ stats(connections(rawConnections', clock')).total =
              Stats.total - Len(SelectSeq(rawConnections, LAMBDA c : c.id = lastDeleted'))

C10_DeleteConnection == [](C10_Inv) /\ [][C10_Step]_vars

\* a parent was deleted: its degree-2 child and that child's degree-3 child
\* are still in the list and counted, and nothing of them is shown
C10_Witness ==
    /\ lastDeleted # NoId
    /\ \E c \in Elems(Connections), g \in Elems(Connections) :
          /\ c.degree = 2 /\ c.connectedThrough = lastDeleted
          /\ g.degree = 3 /\ g.connectedThrough = c.id
    /\ Stats.degree2 > 0 /\ Stats.degree3 > 0
    /\ FilteredConnections = <<>>

\* ------------------------------------------------------------------------
\* C8 as stated: the dashboard serves emails from its cache only when the
\* entry is less than 24 hours old and has the requested source, never on a
\* forced refresh; in every other case it requests /api/email/list and
\* overwrites the cache entry with the response and the requested source.
\* Violated: an error response does not overwrite the entry.
\* ------------------------------------------------------------------------
C8_EntryValid(targetSource) ==
    /\ emailCache.present
    /\ dashNow - emailCache.timestamp < CACHE_TTL
    /\ emailCache.source = targetSource

C8_Served ==
    lastFetch.op \in {"serve", "request"} =>
        /\ lastFetch.op = "serve" <=>
              (~lastFetch.forceRefresh /\ C8_EntryValid(lastFetch.targetSource))
        /\ lastFetch.op = "serve" =>
              /\ usingCache
              /\ allEmails = EmailsFromJson(emailCache.emails)
              /\ pendingLists = <<>>
        /\ lastFetch.op = "request" =>
              /\ ~usingCache
              /\ pendingLists # <<>>
              /\ pendingLists[Len(pendingLists)].targetSource = lastFetch.targetSource

C8_AsStated ==
    /\ C8_Served
    /\ lastFetch.op = "settle" =>
          /\ emailCache.present
          /\ emailCache.source = lastFetch.targetSource
          /\ IdsOf(emailCache.emails) = IdsOf(lastFetch.emails)

\* ------------------------------------------------------------------------
\* C8, amended: the cache is served exactly when the call is not forced and
\* the entry is less than 24 hours old with the requested source; otherwise
\* /api/email/list is requested, and the entry is overwritten with the
\* emails, the time and the requested source only when the request succeeds:
\* a 401 removes the entry and any other failure leaves it as it was.
\* ------------------------------------------------------------------------
C8_SettleStep ==
    lastFetch'.op = "settle" =>
        CASE lastFetch'.kind = "ok" ->
                emailCache' = [present |-> TRUE,
                               emails |-> EmailsToJson(EmailsFromJson(lastFetch'.emails)),
                               stats |-> StatsOf(lastFetch'.emails),
                               timestamp |-> dashNow',
                               source |-> lastFetch'.targetSource]
          [] lastFetch'.kind = "401" -> emailCache' = NoEmailItem
          [] OTHER -> emailCache' = emailCache

C8_EmailCache == [](C8_Served) /\ [][C8_SettleStep]_vars

\* a page load has been served from an entry one second short of 24 hours
C8_Witness ==
    /\ lastFetch.op = "serve"
    /\ Len(allEmails) > 0
    /\ dashNow - emailCache.timestamp = CACHE_TTL - 1

\* ------------------------------------------------------------------------
\* C9: POST /api/connections executes one INSERT per connection in request
\* order and stops at the first INSERT that fails: it answers 500, every
\* INSERT before the failure stays applied, no later INSERT is attempted; it
\* answers success with count = number of connections only when every INSERT
\* succeeded.
\* ------------------------------------------------------------------------
C9_Rows(n) == [j \in 1..n |-> postConnections[j].id]

C9_Succeeded == {j \in 1..Len(postAttempts) : postAttempts[j].outcome = "ok"}

C9_InsertOrder ==
    /\ \A j \in 1..Len(postAttempts) : postAttempts[j].index = j
    /\ \A j \in 1..(Len(postAttempts) - 1) : postAttempts[j].outcome = "ok"
    /\ Len(postAttempts) <= Len(postConnections)
    /\ postPc = "done" =>
          /\ (\E j \in 1..Len(postAttempts) : postAttempts[j].outcome # "ok")
                => postResponse.status = 500
          /\ SubSeq(table, tableBefore + 1, tableBefore + Cardinality(C9_Succeeded))
                = C9_Rows(Cardinality(C9_Succeeded))
          /\ postResponse.success =>
                /\ postResponse.count = Len(postConnections)
                /\ C9_Succeeded = 1..Len(postConnections)
                /\ table = SubSeq(table, 1, tableBefore) \o C9_Rows(Len(postConnections))

\* the second of three INSERTs failed: 500, one row added, the third not tried
C9_Witness ==
    /\ postPc = "done"
    /\ postResponse.status = 500
    /\ Len(postConnections) = 3
    /\ Len(postAttempts) = 2
    /\ postAttempts[2].outcome = "error"
    /\ Len(table) = tableBefore + 1

\* ------------------------------------------------------------------------
\* C11: GET /api/email/list and GET /api/email/starred answer 401 with code
\* NO_SESSION when the request has no gmail_session cookie and 401 with code
\* EXPIRED_SESSION when no tokens are stored for the session id of the
\* cookie; in both cases no Gmail call and no generative-API call is made;
\* every other failure (an error thrown inside the handler) is answered with
\* status 500.
\* ------------------------------------------------------------------------

C11_Inv ==
    /\ (lPc = "done" /\ lSession = NoId) =>
          lResponse = ListUnauthorized("NO_SESSION")
    /\ lResponse.status = 401 =>
          /\ lResponse.code \in {"NO_SESSION", "EXPIRED_SESSION"}
          /\ gmailCalls = <<>>
          /\ geminiCalls = 0
          /\ lError = "none"
    /\ lPc \in {"idle", "tokens"} => gmailCalls = <<>> /\ geminiCalls = 0
    /\ lError # "none" => lPc = "done" /\ lResponse = ListFailed
    /\ lPc = "done" => lResponse.status \in {200, 401, 500}

\* getTokens resolving with null gives the EXPIRED_SESSION response
C11_Step ==
    (lPc = "tokens" /\ lPc' # "tokens" /\ lSession \notin tokenStore) =>
        /\ lPc' = "done"
        /\ lResponse' = ListUnauthorized("EXPIRED_SESSION")
        /\ gmailCalls' = <<>>
        /\ geminiCalls' = 0

C11_Unauthorized == [](C11_Inv) /\ [][C11_Step]_vars

\* a request with the cookie of a session that has no tokens, another
\* session having some, was answered
C11_Witness ==
    /\ lPc = "done"
    /\ lSession # NoId
    /\ lSession \notin tokenStore
    /\ tokenStore # {}
    /\ lResponse = ListUnauthorized("EXPIRED_SESSION")
    /\ gmailCalls = <<>>

\* ------------------------------------------------------------------------
\* C12: if a single messages.get request fails, fetchMessages fails as a
\* whole: no partial list is returned, no request is made a second time and
\* the handler answers 500 without emails; when every request succeeds the
\* parsed messages come in the order of the message references, the
\* references without id being skipped.
\* ------------------------------------------------------------------------

\* the ids of the references that have one, in order
C12_RefIds(refs) ==
    LET req == Requested(refs) IN [k \in 1..Len(req) |-> req[k].id]

C12_Ids(messages) == [k \in 1..Len(messages) |-> messages[k].id]

C12_Inv ==
    \* no request is repeated
    /\ \A i, j \in 1..Len(gmailCalls) : gmailCalls[i] = gmailCalls[j] => i = j
    \* a failed request: 500, no emails
    /\ lError \in {"list", "get"} =>
          /\ lResponse.status = 500
          /\ ~lResponse.hasEmails
          /\ lResponse.emails = <<>>
    \* fetchMessages returned: every reference with an id, in order
    /\ (lPc = "analyze" \/ (lPc = "done" /\ lResponse.status = 200)) =>
          C12_Ids(lMessages) = C12_RefIds(lRefs)
    \* the emails of the response are the fetched ones
    /\ (lPc = "done" /\ lResponse.status = 200) =>
          /\ Len(lResponse.emails) = Len(lMessages)
          /\ {lResponse.emails[k].id : k \in 1..Len(lMessages)}
                = {lMessages[k].id : k \in 1..Len(lMessages)}

\* the Promise.all of a batch settles: the whole batch is added, or the
\* handler answers 500 and nothing is requested again
C12_Step ==
    (lPc = "get" /\ lPc' # "get") =>
        \/ /\ lPc' = "done"
           /\ lError' = "get"
           /\ lResponse' = ListFailed
           /\ gmailCalls' = gmailCalls
        \/ /\ C12_Ids(lMessages') = C12_RefIds(lRefs)
           /\ lError' \in {"none", "Missing GEMINI_API_KEY"}

\* within fetchMessages the batches are added whole
C12_Batch ==
    (lPc = "get" /\ lPc' = "get" /\ lI' # lI) =>
        C12_Ids(lMessages') = C12_Ids(lMessages) \o C12_RefIds(Batch(lRefs, lI))

C12_FetchMessages == [](C12_Inv) /\ [][C12_Step /\ C12_Batch]_vars

\* a request of the second batch failed, the first batch having succeeded
C12_Witness ==
    /\ lPc = "done"
    /\ lError = "get"
    /\ lI > 1
    /\ Len(lMessages) = batchSize
    /\ lResponse = ListFailed

\* ------------------------------------------------------------------------
\* C13: every connection produced from a LinkedIn CSV row has degree 1 and
\* no connectedThrough, the title 'Unknown Position' and the company
\* 'Unknown Company' when the field of the row is empty, and a last-contact
\* date equal to the import time when 'Connected On' is empty or cannot be
\* parsed; a row whose first and last name are both empty is not imported.
\* ------------------------------------------------------------------------

\* the row a connection was made from (the id carries the row index)
C13_RowOf(conn) == importRows[conn.id.index + 1]

C13_Unparseable(text) == text # Jan15

C13_RowConversion ==
    /\ \A k \in 1..Len(newConnections) :
          LET conn == newConnections[k]
              row == C13_RowOf(conn)
          IN  /\ conn.degree = 1
              /\ conn.connectedThrough = NoId
              /\ row.Position = <<>> =>
                    conn.title = <<"U","n","k","n","o","w","n"," ",
                                   "P","o","s","i","t","i","o","n">>
              /\ row.Position # <<>> => conn.title = row.Position
              /\ row.Company = <<>> =>
                    conn.company = <<"U","n","k","n","o","w","n"," ",
                                     "C","o","m","p","a","n","y">>
              /\ row.Company # <<>> => conn.company = row.Company
              /\ (row.ConnectedOn = <<>> \/ C13_Unparseable(row.ConnectedOn)) =>
                    conn.lastContactDate = DateOf(importNow)
              /\ ~conn.lastContactDate.nan
              /\ row.FirstName # <<>> \/ row.LastName # <<>>
    /\ \A k \in 1..Len(importAdded) :
          \E j \in 1..Len(newConnections) : importAdded[k] = newConnections[j]
    /\ \A k \in 1..Len(importRows) :
          (importRows[k].FirstName = <<>> /\ importRows[k].LastName = <<>>) =>
              \A j \in 1..Len(newConnections) : newConnections[j].id.index # k - 1

\* a file with a nameless row and a row whose date cannot be parsed and whose
\* position and company are empty was imported
C13_Witness ==
    /\ ~importing
    /\ Len(importRows) = 2
    /\ importRows[1].FirstName = <<>> /\ importRows[1].LastName = <<>>
    /\ importRows[2].ConnectedOn = NotADate
    /\ importRows[2].Position = <<>> /\ importRows[2].Company = <<>>
    /\ Len(newConnections) = 1
    /\ importAdded = newConnections
    /\ newConnections[1].lastContactDate = DateOf(importNow)

\* ------------------------------------------------------------------------
\* C14: with the maxDegree filter set to n (1, 2 or 3) filteredConnections
\* contains no connection of a degree greater than n; with maxDegree null
\* (show all) it equals the result for maxDegree 3; for the same data and
\* other filters the result for a smaller maxDegree is a subset of the
\* result for a larger one.
\* ------------------------------------------------------------------------

\* filteredConnections with maxDegree n, everything else as it is
C14_Result(n) == filteredConnections(Connections, [filters EXCEPT !.maxDegree = n])

C14_MaxDegree ==
    mounted =>
        LET r1 == C14_Result(1)
            r2 == C14_Result(2)
            r3 == C14_Result(3)
            shown == FilteredConnections
        IN  /\ filters.maxDegree \in {NullDegree, 1, 2, 3}
            /\ \A v \in Elems(r1) : v.degree <= 1
            /\ \A v \in Elems(r2) : v.degree <= 2
            /\ \A v \in Elems(r3) : v.degree <= 3
            /\ filters.maxDegree = 1 => shown = r1
            /\ filters.maxDegree = 2 => shown = r2
            /\ filters.maxDegree = 3 => shown = r3
            /\ filters.maxDegree = NullDegree => shown = r3
            /\ C14_Result(NullDegree) = r3
            /\ Elems(r1) \subseteq Elems(r2)
            /\ Elems(r2) \subseteq Elems(r3)

\* maxDegree is 2 and hides a 3rd-degree connection that is shown with
\* maxDegree 3
C14_Witness ==
    /\ mounted
    /\ filters.maxDegree = 2
    /\ \E v \in Elems(FilteredConnections) : v.degree = 2
    /\ \E h \in Elems(C14_Result(3)) : h.degree = 3 /\ h \notin Elems(FilteredConnections)

\* ------------------------------------------------------------------------
\* C18: after any sequence of operations every link exposed by the
\* connections context has its source id and its target id among the ids of
\* the connections in filteredConnections: no link points to a hidden or
\* deleted connection.
\* ------------------------------------------------------------------------

C18_LinksVisible ==
    mounted =>
        \A k \in 1..Len(Links) :
            /\ Links[k].source \in IdsOf(FilteredConnections)
            /\ Links[k].target \in IdsOf(FilteredConnections)
            /\ Links[k].source \in IdsOf(rawConnections)
            /\ Links[k].target \in IdsOf(rawConnections)

\* a link is exposed while the link of another connection is held back,
\* that connection or its parent being hidden or deleted
C18_Witness ==
    /\ mounted
    /\ Links # <<>>
    /\ Len(Links) < Len(allLinks(Connections))

\* ------------------------------------------------------------------------
\* C19: the heat-status filter applies to 1st-degree connections only:
\* whether a 2nd- or 3rd-degree connection is in filteredConnections does
\* not depend on its own heat status, only on the industry and search
\* filters, on maxDegree and on whether its parent is visible.
\* ------------------------------------------------------------------------

\* a connection of the given degree and id is in the result
C19_Visible(result, degree, id) ==
    \E p \in Elems(result) : p.degree = degree /\ p.id = id

\* what decides about connection k, of degree 2 or 3
C19_Shown(k) ==
    LET conn == Connections[k]
    IN  /\ matchesBasicFilters(conn, filters)
        /\ filters.maxDegree \in 1..3 => conn.degree <= filters.maxDegree
        /\ conn.connectedThrough # NoId
        /\ C19_Visible(FilteredConnections, conn.degree - 1, conn.connectedThrough)

C19_HeatFirstDegreeOnly ==
    mounted =>
        \A k \in 1..Len(Connections) :
            Connections[k].degree \in {2, 3} =>
                /\ Connections[k] \in Elems(FilteredConnections) <=> C19_Shown(k)
                /\ \A heat \in {"hot", "warm", "cold"} :
                      LET other == [j \in 1..Len(Connections) |->
                                       IF j = k
                                       THEN [Connections[j] EXCEPT !.heatStatus = heat]
                                       ELSE Connections[j]]
                      IN  other[k] \in Elems(filteredConnections(other, filters))
                             <=> Connections[k] \in Elems(FilteredConnections)

\* the heat filter is set and a 2nd-degree connection with another heat
\* status is shown
C19_Witness ==
    /\ mounted
    /\ filters.heatStatuses # {}
    /\ \E v \in Elems(FilteredConnections) :
          v.degree = 2 /\ v.heatStatus \notin filters.heatStatuses


\* ---------------------------------------------------------------------------
\* C15  getEmailHeatScore returns a number between 0 and 100: whenever a score
\*      has been computed for an email it is a number (not NaN), at least 0 and
\*      at most 100.
\* ---------------------------------------------------------------------------
C15_ScoreInRange ==
    sStatus # "none" => /\ ~ sScore.nan
                        /\ sScore.n >= 0
                        /\ sScore.n <= 100

\* the two ways out of the range, each a state of its own
C15_Negative == sStatus # "none" /\ ~ sScore.nan /\ sScore.n < 0

C15_NotANumber == sStatus # "none" /\ sScore.nan


\* ---------------------------------------------------------------------------
\* C16  executeQuery runs a statement only while a connection is established:
\*      a call made when the last connect() or disconnect() that settled was
\*      not a successful connect() (none yet, a failed connect(), a
\*      disconnect()) is rejected with the 'Not connected' error and without
\*      any call of connection.execute.
\* ---------------------------------------------------------------------------
C16_NotConnectedError ==
    (snCall.op = "executeQuery" /\ snLast # "connected")
        => /\ snCall.settled
           /\ snCall.outcome = NotConnected
           /\ (sdkCalls = <<>> \/ sdkCalls[Len(sdkCalls)] # "execute")

\* the parts of the statement the module keeps: before any connect() and
\* after disconnect() the call is rejected without executing anything, and
\* disconnect() resolves whatever the state of the module
C16_NeverOrDisconnected ==
    (snCall.op = "executeQuery" /\ snLast \in {"never", "disconnected"})
        => /\ snCall.settled
           /\ snCall.outcome = NotConnected

C16_DisconnectResolves ==
    (snCall.op = "disconnect" /\ snCall.settled) => snCall.outcome = "resolved"

\* a statement was handed to a connection whose connect() had failed
C16_ExecutedAfterFailedConnect ==
    /\ snCall.op = "executeQuery"
    /\ snLast = "connectFailed"
    /\ connection = "pristine"
    /\ sdkCalls[Len(sdkCalls)] = "execute"

\* ---------------------------------------------------------------------------
\* C17  The readSnowflakeTable script closes the connection before the
\*      process ends: when a run that got past the argument and environment
\*      checks has exited, main has called disconnect().
\* ---------------------------------------------------------------------------
C17_DisconnectBeforeExit ==
    (mainPc = "exited" /\ tableName /\ envMissing = {}) => disconnects > 0

\* the same for the runs that succeed: they end with the connection closed
C17_ClosedOnSuccess ==
    (mainPc = "exited" /\ exitCode = 0) => (disconnects = 1 /\ connection = "null")

\* the process has exited from the catch block with the connection open
C17_ExitedOpen ==
    /\ mainPc = "exited"
    /\ exitCode = 1
    /\ connection = "up"
    /\ disconnects = 0


\* ---------------------------------------------------------------------------
\* C20  sortByPriority returns a permutation of its input in which every HIGH
\*      email precedes every MEDIUM email and every MEDIUM email precedes
\*      every LOW email, emails of equal priority are in ascending order of
\*      date, and the array passed in keeps its order.
\* ---------------------------------------------------------------------------
C20_Rank(priority) ==
    CASE priority = "HIGH" -> 0
      [] priority = "MEDIUM" -> 1
      [] priority = "LOW" -> 2
      [] OTHER -> -1

C20_IsPermutation ==
    /\ Len(sortReturned) = Len(sortArg)
    /\ \A k \in 1..Len(sortArg) :
          \E j \in 1..Len(sortReturned) : sortReturned[j] = sortArg[k]

C20_Ordered ==
    \A i, j \in 1..Len(sortReturned) :
       i < j =>
          LET a == sortReturned[i]
              b == sortReturned[j]
              ra == C20_Rank(a.analysis.priority)
              rb == C20_Rank(b.analysis.priority)
          IN  /\ (ra >= 0 /\ rb >= 0) => ra <= rb
              /\ (ra >= 0 /\ ra = rb /\ ~a.date.nan /\ ~b.date.nan)
                    => a.date.n <= b.date.n

C20_SortedByPriority ==
    sortPc = "done" => /\ C20_IsPermutation
                       /\ C20_Ordered
                       /\ sortEmails = sortArg

\* the same, for the arrays whose priorities are all HIGH, MEDIUM or LOW
C20_SortedInEnum ==
    (sortPc = "done"
        /\ \A k \in 1..Len(sortArg) : sortArg[k].analysis.priority \in Priorities)
           => /\ C20_IsPermutation
              /\ C20_Ordered
              /\ sortEmails = sortArg

\* what is always kept: a permutation, the argument untouched
C20_PermutationOnly ==
    sortPc = "done" => (C20_IsPermutation /\ sortEmails = sortArg)

\* [LOW, URGENT, HIGH] returned in the order it was given
C20_LowBeforeHigh ==
    /\ sortPc = "done"
    /\ Len(sortArg) = 3
    /\ sortArg[1].analysis.priority = "LOW"
    /\ sortArg[2].analysis.priority = "URGENT"
    /\ sortArg[3].analysis.priority = "HIGH"
    /\ sortReturned = sortArg


\* ---------------------------------------------------------------------------
\* C21  getEmailHeatStatus and the age of the email. As stated: an email 7 or
\*      more days old is critical and an email 3 to 7 days old is urgent,
\*      whatever the priority and the deadline. As the code has it: a deadline
\*      that getDeadlineHeat recognises decides the status alone; without one,
\*      a HIGH email is critical from 3 days on and urgent before, and any
\*      other email is critical from 7 days on and urgent from 3 days on.
\* ---------------------------------------------------------------------------
C21_Age == TimeDiff(sNow, sEmail.date)

C21_Old == ~C21_Age.nan /\ C21_Age.n >= 7 * DAY

C21_Recent == ~C21_Age.nan /\ C21_Age.n >= 3 * DAY /\ C21_Age.n < 7 * DAY

C21_DeadlineHeat ==
    IF sEmail.analysis.deadline = <<>> THEN "null"
    ELSE getDeadlineHeat(sEmail.analysis.deadline, sNow)

C21_AsStated ==
    sStatus # "none" => /\ C21_Old => sStatus = "critical"
                        /\ C21_Recent => sStatus = "urgent"

C21_AgeClasses ==
    sStatus # "none" =>
        IF C21_DeadlineHeat # "null" THEN sStatus = C21_DeadlineHeat
        ELSE IF sEmail.analysis.priority = "HIGH"
             THEN /\ (C21_Old \/ C21_Recent) => sStatus = "critical"
                  /\ ~(C21_Old \/ C21_Recent) => sStatus = "urgent"
        ELSE /\ C21_Old => sStatus = "critical"
             /\ C21_Recent => sStatus = "urgent"
             /\ ~(C21_Old \/ C21_Recent) => sStatus \in {"normal", "low"}

\* a HIGH email of exactly 3 days without a deadline has been classified
C21_Witness ==
    /\ sStatus = "critical"
    /\ sEmail.analysis.priority = "HIGH"
    /\ sEmail.analysis.deadline = <<>>
    /\ C21_Age = Num(3 * DAY)

\* an old email whose deadline makes it normal
C21_OldButNormal ==
    /\ sStatus = "normal"
    /\ C21_Old
    /\ C21_DeadlineHeat = "normal"


\* ---------------------------------------------------------------------------
\* C22  After a LinkedIn import no connection added by it has the name,
\*      compared without regard to case, of another connection of the list:
\*      neither of one that was there before nor of one added by the same
\*      import.
\* ---------------------------------------------------------------------------
C22_Name(conn) == toLowerCase(conn.name)

C22_NewToList ==
    \A i \in 1..Len(importAdded), k \in 1..Len(importHeld) :
       C22_Name(importAdded[i]) # C22_Name(importHeld[k])

C22_DistinctInFile ==
    \A i, j \in 1..Len(importAdded) :
       i # j => C22_Name(importAdded[i]) # C22_Name(importAdded[j])

C22_NoDuplicateNames ==
    ~importResult.isNull => (C22_NewToList /\ C22_DistinctInFile)

\* what the filter does ensure: no added name is one of the held list
C22_NoHeldName == ~importResult.isNull => C22_NewToList

\* two rows of one file with the same name have both been added
C22_TwiceAdded ==
    /\ ~importResult.isNull
    /\ importHeld = <<>>
    /\ Len(importAdded) = 2
    /\ importAdded[1].name = importAdded[2].name
    /\ importResult.skipped = 0


\* ---------------------------------------------------------------------------
\* C23  A connection added through addConnections stays in the list of the
\*      provider when the fetch of /api/connections that was started before
\*      the add completes after it: when the fetch settles, the connections
\*      added since it started (and not cleared since) are still in the list.
\* ---------------------------------------------------------------------------
C23_AddedStays ==
    [][provGet'.stage = "none" /\ provGet.stage = "answered"
          => provAdded \subseteq IdsOf(provConnections')]_vars

\* they are kept by a fetch that fails or finds the table empty
C23_KeptUnlessReplaced ==
    [][(provGet'.stage = "none" /\ provGet.stage = "answered"
          /\ ~(provGet.ok /\ Len(provGet.connections) > 0))
          => provConnections' = provConnections]_vars

\* a connection was added while the response was on its way, and the
\* response holds a list without it
C23_AddedDuringFetch ==
    /\ provGet.stage = "answered"
    /\ provGet.ok
    /\ provGet.connections # <<>>
    /\ provAdded # {}
    /\ provAdded \subseteq IdsOf(provConnections)
    /\ ~(provAdded \subseteq IdsOf(provGet.connections))


\* ---------------------------------------------------------------------------
\* C24  With the file-based token storage, once the concurrent saveTokens and
\*      deleteTokens calls (of different session ids) have all completed,
\*      getTokens returns for each session id the tokens of its last save,
\*      or null if its last call was a delete.
\* ---------------------------------------------------------------------------
C24_Quiet == \A k \in 1..MaxFsCalls : fsCalls[k].kind = "none"

C24_OwnLastTokens ==
    C24_Quiet => \A userId \in FsUsers : getTokens(userId) = fsLast[userId]

\* the save of one session has removed the tokens of the other
C24_LostTokens ==
    /\ C24_Quiet
    /\ fsLast["s1"] # "none"
    /\ fsLast["s2"] # "none"
    /\ getTokens("s1") = "none"
    /\ getTokens("s2") = fsLast["s2"]


\* ---------------------------------------------------------------------------
\* C25  Whenever the dashboard is connected, neither loading nor refreshing,
\*      with no fetch in flight, free of an error and showing the source
\*      'all', its list comes from a fetch with filter=all: the last
\*      response that was stored is one of such a fetch, and the list is
\*      that response, followed at most by starred emails held before.
\* ---------------------------------------------------------------------------
C25_ShowsAll ==
    /\ dashMounted /\ connected /\ ~loading /\ ~refreshing
    /\ pendingLists = <<>>
    /\ source = "all"
    /\ error = "null"

C25_Response == EmailsFromJson(emailCache.emails)

C25_FromAllFetch ==
    /\ emailCache.present
    /\ emailCache.source = "all"
    /\ Len(allEmails) >= Len(C25_Response)
    /\ SubSeq(allEmails, 1, Len(C25_Response)) = C25_Response
    /\ \A k \in (Len(C25_Response) + 1)..Len(allEmails) : allEmails[k].isStarred

C25_AllSource == C25_ShowsAll => C25_FromAllFetch

\* 'all' is shown with the response of a fetch with filter=starred
C25_StarredShownAsAll ==
    /\ C25_ShowsAll
    /\ hasLoadedAll
    /\ emailCache.present
    /\ emailCache.source = "starred"
    /\ allEmails = C25_Response
    /\ allEmails # <<>>

====
